---- MODULE Spec2Model ----
(***************************************************************************)
(* A model of DecCore (src/src/iot/dec-core.cc): the online lattice-        *)
(* generating Viterbi beam-search decoder.  The decoder object's fields    *)
(* are the variables; every public operation (InitDecoding,                *)
(* AdvanceDecoding, FinalizeDecoding, Decode and the const readers) is one *)
(* action, computed by operators that follow the C++ statement by          *)
(* statement.  Costs are integers (BaseFloat in the source); +infinity is  *)
(* the distinguished value Inf.  Token* / ForwardLink* are modelled as     *)
(* token identities (allocation numbers), NULL as 0.                       *)
(***************************************************************************)
EXTENDS Integers, Sequences, FiniteSets, TLC

\* ---------------------------------------------------------------- bounds
\* largest number of frames the decodable object may hold
MaxFrames == 3

\* ------------------------------------------------------------- constants
NULL == 0
\* std::numeric_limits<BaseFloat>::infinity()
Inf == 1000000
kWfstEpsilon == 0
\* std::numeric_limits<int32>::max(), the default of max_active
MaxInt32 == 2147483647
\* the content of a BaseFloat member no statement has written yet
Uninit == 0 - 1

\* ------------------------------------------------- BaseFloat arithmetic
IsInf(x) == x >= Inf
\* a + b in IEEE arithmetic restricted to finite values and +infinity
Plus(a, b) == IF IsInf(a) \/ IsInf(b) THEN Inf ELSE a + b
\* a subtraction that loses +infinity: a faulty variant of Minus
MinusFinite(a, b) == a - b
\* a subtraction with its operands swapped: a faulty variant of Minus
MinusSwapped(a, b) == IF IsInf(a) THEN Inf ELSE b - a
\* a - b for finite b
Minus(a, b) == IF IsInf(a) THEN Inf ELSE a - b
\* a std::min that returns its second argument: a faulty variant of Min2
Min2Second(a, b) == b
Min2(a, b) == IF a < b THEN a ELSE b
\* fabs(a - b) > delta, with delta = dnum / dden; inf - inf is NaN and every
\* comparison with NaN is false
FabsDiffGreater(a, b, dnum, dden) ==
  IF IsInf(a) /\ IsInf(b) THEN FALSE
  ELSE IF IsInf(a) \/ IsInf(b) THEN TRUE
  ELSE (IF a >= b THEN a - b ELSE b - a) * dden > dnum
\* kaldi::ApproxEqual(a, b, 1.0e-05): relative tolerance; on the integer
\* costs of this model (all far below 1e5) that is equality
ApproxEqual(a, b) == a = b

\* ------------------------------------------------------ the graph oracle
MkArc(i, o, w, d) == [ilabel |-> i, olabel |-> o, weight |-> w, dst |-> d]

\* G1: epsilon closure with a revisit (state 1 is reached twice), parallel
\* paths of different cost, a final state
Graph1 ==
  [start |-> 0,
   final |-> [s \in 0..4 |-> IF s = 4 THEN 0 ELSE IF s = 3 THEN 2 ELSE Inf],
   arcs  |-> [s \in 0..4 |->
       CASE s = 0 -> << MkArc(0, 0, 1, 1), MkArc(0, 0, 0, 2), MkArc(1, 0, 0, 3) >>
         [] s = 1 -> << MkArc(1, 7, 0, 3), MkArc(2, 8, 2, 4) >>
         [] s = 2 -> << MkArc(0, 9, 0, 1) >>
         [] s = 3 -> << MkArc(1, 0, 1, 3), MkArc(2, 0, 0, 4), MkArc(0, 5, 1, 4) >>
         [] s = 4 -> << MkArc(1, 0, 0, 4) >> ]]

\* G2: scenario S2 of the specification: no final state, state 3 is a dead end
Graph2 ==
  [start |-> 0,
   final |-> [s \in 0..3 |-> Inf],
   arcs  |-> [s \in 0..3 |->
       CASE s = 0 -> << MkArc(0, 0, 0, 1), MkArc(1, 0, 0, 3) >>
         [] s = 1 -> << MkArc(0, 9, 0, 2) >>
         [] s = 2 -> << >>
         [] s = 3 -> << >> ]]

\* G3: three fully connected emitting states with word labels; finals of
\* different cost
Graph3 ==
  [start |-> 0,
   final |-> [s \in 0..2 |-> IF s = 0 THEN Inf ELSE s],
   arcs  |-> [s \in 0..2 |->
       CASE s = 0 -> << MkArc(1, 7, 0, 0), MkArc(1, 8, 1, 1), MkArc(2, 7, 3, 2) >>
         [] s = 1 -> << MkArc(2, 0, 0, 0), MkArc(1, 8, 2, 1), MkArc(1, 0, 1, 2),
                        MkArc(0, 7, 2, 2) >>
         [] s = 2 -> << MkArc(1, 7, 0, 2), MkArc(2, 8, 4, 0) >> ]]

\* G4: an epsilon arc into a state that was reached before (2 -> 1), so that
\* on frame 0 the token of state 2 precedes the token of state 1, its link's
\* destination, on the token list; the path through state 1 costs 1 more
\* than the path from the start state
Graph4 ==
  [start |-> 0,
   final |-> [s \in 0..3 |-> IF s = 3 THEN 0 ELSE Inf],
   arcs  |-> [s \in 0..3 |->
       CASE s = 0 -> << MkArc(0, 0, 0, 1), MkArc(0, 0, 0, 2), MkArc(1, 0, 0, 3) >>
         [] s = 1 -> << MkArc(1, 0, 1, 3) >>
         [] s = 2 -> << MkArc(0, 0, 1, 1) >>
         [] s = 3 -> << MkArc(1, 0, 0, 3) >> ]]

\* G5: an epsilon closure that visits a state twice: state 1 is expanded at
\* cost 2, reached from the start state, and again at cost 1, reached through
\* state 2; it has an epsilon arc of its own and one too dear for a beam of 3
Graph5 ==
  [start |-> 0,
   final |-> [s \in 0..3 |-> IF s = 3 THEN 0 ELSE Inf],
   arcs  |-> [s \in 0..3 |->
       CASE s = 0 -> << MkArc(0, 0, 0, 2), MkArc(0, 0, 2, 1), MkArc(1, 0, 0, 3) >>
         [] s = 1 -> << MkArc(0, 0, 0, 3), MkArc(0, 0, 5, 3), MkArc(1, 0, 1, 3) >>
         [] s = 2 -> << MkArc(0, 0, 1, 1), MkArc(2, 0, 0, 0) >>
         [] s = 3 -> << MkArc(1, 0, 0, 3), MkArc(2, 0, 2, 0) >> ]]

\* G6: epsilon self-loops, one of weight 0 on the start state and one of
\* weight 1 on the final state
Graph6 ==
  [start |-> 0,
   final |-> [s \in 0..1 |-> IF s = 1 THEN 0 ELSE Inf],
   arcs  |-> [s \in 0..1 |->
       CASE s = 0 -> << MkArc(0, 0, 0, 0), MkArc(0, 0, 1, 1), MkArc(1, 0, 0, 1) >>
         [] s = 1 -> << MkArc(0, 0, 1, 1), MkArc(1, 0, 0, 1), MkArc(2, 0, 1, 0) >> ]]

\* G7: two emitting arcs between the same two states, of different input
\* label and weight; the dearer one comes second
Graph7 ==
  [start |-> 0,
   final |-> [s \in 0..1 |-> IF s = 1 THEN 0 ELSE Inf],
   arcs  |-> [s \in 0..1 |->
       CASE s = 0 -> << MkArc(1, 0, 0, 1), MkArc(2, 0, 3, 1) >>
         [] s = 1 -> << MkArc(1, 0, 0, 1) >> ]]

\* G8: epsilon cycles of two arcs, 0 -> 1 -> 0 of weight 0 and 1 -> 2 -> 1 of
\* weight 2, and an epsilon arc 0 -> 2 that is dearer than the way over 1
Graph8 ==
  [start |-> 0,
   final |-> [s \in 0..2 |-> IF s = 2 THEN 0 ELSE Inf],
   arcs  |-> [s \in 0..2 |->
       CASE s = 0 -> << MkArc(0, 0, 2, 2), MkArc(0, 0, 0, 1), MkArc(1, 0, 1, 2) >>
         [] s = 1 -> << MkArc(0, 0, 0, 0), MkArc(0, 0, 1, 2), MkArc(2, 0, 0, 1) >>
         [] s = 2 -> << MkArc(0, 0, 1, 1), MkArc(1, 0, 0, 0), MkArc(2, 0, 2, 2) >> ]]

Graphs == << Graph1, Graph2, Graph3, Graph4, Graph5, Graph6, Graph7, Graph8 >>

\* ------------------------------------------------------ the LM-diff oracle
\* lm_fst_ == NULL is LM 0.  LM 1 adds 1 to every word arc and remembers the
\* last word as its state.  LM 2 has no arc for word 8 (a malformed LM).
\* LM 3 weighs word 7 by 2 and the other words by 1, and has final weights:
\* 3 after word 7, 1 in its other states.
LmStart(lm) == 0
LmFinal(lm, s) == IF lm = 3 THEN (IF s = 7 THEN 3 ELSE 1) ELSE 0
LmGetArc(lm, s, olabel) ==
  IF lm = 2 /\ olabel = 8
  THEN [found |-> FALSE, weight |-> 0, olabel |-> 0, nextstate |-> 0]
  ELSE [found |-> TRUE, weight |-> IF lm = 3 /\ olabel = 7 THEN 2 ELSE 1,
        olabel |-> olabel, nextstate |-> olabel]
Lms == 0..3

\* --------------------------------------------------- the likelihood oracle
\* decodable->LogLikelihood(frame, ilabel) for likelihood table ll
LogLikelihood(ll, frame, ilabel) ==
  CASE ll = 1 -> 0
    [] ll = 2 -> IF ilabel = 1 THEN 0 - (frame + 1) ELSE 0 - 1
    [] OTHER -> IF ilabel = 1 THEN 0 - 2 ELSE (IF frame = 1 THEN 0 - 6 ELSE 0)
Likelihoods == 1..3

\* ---------------------------------------------------------- configuration
\* DecCoreConfig; prune_scale is the fraction prune_num / prune_den
MkConfig(b, maxa, mina, lb, pi, bd, pn, pd) ==
  [beam |-> b, max_active |-> maxa, min_active |-> mina, lattice_beam |-> lb,
   prune_interval |-> pi, beam_delta |-> bd, prune_num |-> pn, prune_den |-> pd]
Configs ==
  << MkConfig(16, MaxInt32, 0, 10, 1, 1, 1, 10),
     MkConfig(3, MaxInt32, 0, 1, 2, 1, 1, 2),
     MkConfig(4, 2, 1, 2, 1, 1, 1, 2),
     MkConfig(16, MaxInt32, 2, 1, 3, 1, 1, 10) >>

\* the decoders constructed: << graph, LM, configuration, likelihood table >>.
\* Together they cover a run without pruning, token and link pruning during
\* decoding, the max_active and min_active cutoffs, prune intervals 1, 2, 3,
\* a search that dies out, LM composition, and an LM without the arc asked
\* for (on the first frame and on a later one), an LM with final weights, a
\* token list that is not in topological order, an epsilon closure that
\* expands a token twice, epsilon self-loops, and parallel arcs.
Setups ==
  << << 1, 0, 1, 1 >>, << 1, 0, 2, 2 >>, << 1, 0, 3, 1 >>, << 1, 0, 4, 3 >>,
     << 2, 0, 1, 1 >>, << 2, 0, 4, 2 >>, << 3, 0, 2, 3 >>, << 3, 0, 3, 2 >>,
     << 3, 1, 2, 2 >>, << 1, 1, 2, 3 >>, << 3, 1, 3, 3 >>, << 1, 2, 1, 1 >>,
     << 3, 2, 2, 1 >>, << 1, 3, 1, 2 >>, << 3, 3, 4, 1 >>, << 4, 0, 1, 1 >>,
     << 4, 0, 2, 1 >>, << 5, 0, 2, 1 >>, << 6, 0, 2, 1 >>,
     << 7, 0, 2, 1 >> >>

\* DecCoreConfig::Check
ConfigCheck(c) ==
  /\ c.beam > 0 /\ c.max_active > 1 /\ c.lattice_beam > 0
  /\ c.prune_interval > 0 /\ c.beam_delta > 0
  /\ c.prune_num > 0 /\ c.prune_num < c.prune_den

\* graph oracle: la_fst_->Start(), Final(state), the arcs of a state in order
GraphStart(g) == Graphs[g].start
GraphFinal(g, s) == Graphs[g].final[s]
GraphArcs(g, s) == Graphs[g].arcs[s]

\* ------------------------------------------------------------ ViterbiState
ComposeViterbiState(la_state, lm_state) == << la_state, lm_state >>
ExtractLaState(state) == state[1]
ExtractLmState(state) == state[2]

\* ------------------------------------------------------------- token store
\* A decoder value d is the record of the DecCore fields (see the variables
\* below).  d.failed is "" while the call in progress runs normally and names
\* the way it ended otherwise: "assert" (KALDI_ASSERT, abort), "error"
\* (KALDI_ERR, an exception), "exit" (exit(0) in PropagateLm).
Fail(d, how) == IF d.failed = "" THEN [d EXCEPT !.failed = how] ELSE d

\* TokenList(): an empty list, both dirty flags set
NewTokenList ==
  [toks |-> << >>, must_prune_forward_links |-> TRUE, must_prune_tokens |-> TRUE]

\* NewToken: a fresh Token; its identity is its allocation number.  The
\* search state it stands for is kept beside it (state_of) for stating
\* properties only: the decoder never reads it.
NewToken(d, state, total_cost, extra_cost, backpointer) ==
  LET id == d.nalloc + 1 IN
  [d |-> [d EXCEPT !.nalloc = id,
                   !.tokens = @ @@ (id :> [total_cost |-> total_cost,
                                           extra_cost |-> extra_cost,
                                           links |-> << >>,
                                           backpointer |-> backpointer]),
                   !.state_of = @ @@ (id :> state)],
   tok |-> id]

\* DeleteToken: the token leaves the store; a pointer to it now dangles
DeleteToken(d, tok) ==
  [d EXCEPT !.tokens = [i \in (DOMAIN @) \ {tok} |-> @[i]],
            !.state_of = [i \in (DOMAIN @) \ {tok} |-> @[i]]]

NewLink(dst_tok, ilabel, olabel, graph_cost, acoustic_cost) ==
  [dst_tok |-> dst_tok, ilabel |-> ilabel, olabel |-> olabel,
   graph_cost |-> graph_cost, acoustic_cost |-> acoustic_cost]

\* DeleteLinksFromToken followed by tok->links = NULL
DeleteLinksFromToken(d, tok) == [d EXCEPT !.tokens[tok].links = << >>]

\* ------------------------------------------------------------ active index
\* token_set_: HashList<ViterbiState, Token*>, a list of (key, val) entries
RECURSIVE SetFind(_, _, _)
SetFind(list, state, i) ==
  IF i > Len(list) THEN 0
  ELSE IF list[i].key = state THEN i ELSE SetFind(list, state, i + 1)
\* Find: the index of the entry of state, 0 for NULL
Find(list, state) == SetFind(list, state, 1)
Insert(list, state, tok) == Append(list, [key |-> state, val |-> tok])

\* ------------------------------------------------------------ the call log
\* What the driver called, in order, during the public call in progress.
LogEvent(d, op, frame, val) ==
  [d EXCEPT !.log = Append(@, [op |-> op, frame |-> frame, val |-> val])]

\* NumFramesDecoded() == token_net_.size() - 1
NumFramesDecoded(d) == Len(d.token_net_) - 1

\* --------------------------------------------------------- FindOrAddToken
\* a FindOrAddToken that allocates a token without looking the state up: a
\* faulty variant
FindOrAddTokenAlways(d, state, t, total_cost, backpointer) ==
  IF ~(t < Len(d.token_net_))
  THEN [d |-> Fail(d, "assert"), tok |-> NULL, changed |-> FALSE]
  ELSE [d |-> [NewToken(d, state, total_cost, 0, backpointer).d EXCEPT
                 !.token_net_[t + 1].toks = << d.nalloc + 1 >> \o @,
                 !.num_toks_ = @ + 1,
                 !.token_set_ = Insert(@, state, d.nalloc + 1)],
        tok |-> d.nalloc + 1, changed |-> TRUE]

\* a FindOrAddToken that takes an equal total_cost for an improvement: a
\* faulty variant
FindOrAddTokenOnEqual(d, state, t, total_cost, backpointer) ==
  IF ~(t < Len(d.token_net_))
  THEN [d |-> Fail(d, "assert"), tok |-> NULL, changed |-> FALSE]
  ELSE IF Find(d.token_set_, state) = 0
  THEN [d |-> [NewToken(d, state, total_cost, 0, backpointer).d EXCEPT
                 !.token_net_[t + 1].toks = << d.nalloc + 1 >> \o @,
                 !.num_toks_ = @ + 1,
                 !.token_set_ = Insert(@, state, d.nalloc + 1)],
        tok |-> d.nalloc + 1, changed |-> TRUE]
  ELSE IF d.tokens[d.token_set_[Find(d.token_set_, state)].val].total_cost >= total_cost
  THEN [d |-> [d EXCEPT
                 !.tokens[d.token_set_[Find(d.token_set_, state)].val].total_cost = total_cost,
                 !.tokens[d.token_set_[Find(d.token_set_, state)].val].backpointer = backpointer],
        tok |-> d.token_set_[Find(d.token_set_, state)].val, changed |-> TRUE]
  ELSE [d |-> d, tok |-> d.token_set_[Find(d.token_set_, state)].val, changed |-> FALSE]

\* a FindOrAddToken that gives a found token the incoming total_cost and
\* backpointer whether or not they are better: a faulty variant
FindOrAddTokenOverwrite(d, state, t, total_cost, backpointer) ==
  IF ~(t < Len(d.token_net_))
  THEN [d |-> Fail(d, "assert"), tok |-> NULL, changed |-> FALSE]
  ELSE IF Find(d.token_set_, state) = 0
  THEN [d |-> [NewToken(d, state, total_cost, 0, backpointer).d EXCEPT
                 !.token_net_[t + 1].toks = << d.nalloc + 1 >> \o @,
                 !.num_toks_ = @ + 1,
                 !.token_set_ = Insert(@, state, d.nalloc + 1)],
        tok |-> d.nalloc + 1, changed |-> TRUE]
  ELSE [d |-> [d EXCEPT
                 !.tokens[d.token_set_[Find(d.token_set_, state)].val].total_cost = total_cost,
                 !.tokens[d.token_set_[Find(d.token_set_, state)].val].backpointer = backpointer],
        tok |-> d.token_set_[Find(d.token_set_, state)].val,
        changed |-> d.tokens[d.token_set_[Find(d.token_set_, state)].val].total_cost > total_cost]

\* a FindOrAddToken whose new token starts with extra_cost 1: a faulty
\* variant
FindOrAddTokenExtraCost(d, state, t, total_cost, backpointer) ==
  IF ~(t < Len(d.token_net_))
  THEN [d |-> Fail(d, "assert"), tok |-> NULL, changed |-> FALSE]
  ELSE IF Find(d.token_set_, state) = 0
  THEN [d |-> [NewToken(d, state, total_cost, 1, backpointer).d EXCEPT
                 !.token_net_[t + 1].toks = << d.nalloc + 1 >> \o @,
                 !.num_toks_ = @ + 1,
                 !.token_set_ = Insert(@, state, d.nalloc + 1)],
        tok |-> d.nalloc + 1, changed |-> TRUE]
  ELSE IF d.tokens[d.token_set_[Find(d.token_set_, state)].val].total_cost > total_cost
  THEN [d |-> [d EXCEPT
                 !.tokens[d.token_set_[Find(d.token_set_, state)].val].total_cost = total_cost,
                 !.tokens[d.token_set_[Find(d.token_set_, state)].val].backpointer = backpointer],
        tok |-> d.token_set_[Find(d.token_set_, state)].val, changed |-> TRUE]
  ELSE [d |-> d, tok |-> d.token_set_[Find(d.token_set_, state)].val, changed |-> FALSE]

\* Returns the decoder after the call, the token and *changed.
FindOrAddToken(d, state, t, total_cost, backpointer) ==
  IF ~(t < Len(d.token_net_))
  THEN [d |-> Fail(d, "assert"), tok |-> NULL, changed |-> FALSE]
  ELSE
  LET e_found == Find(d.token_set_, state) IN
  IF e_found = 0
  THEN LET n == NewToken(d, state, total_cost, 0, backpointer)
           d2 == [n.d EXCEPT !.token_net_[t + 1].toks = << n.tok >> \o @,
                             !.num_toks_ = @ + 1,
                             !.token_set_ = Insert(@, state, n.tok)]
       IN [d |-> d2, tok |-> n.tok, changed |-> TRUE]
  ELSE LET tok == d.token_set_[e_found].val IN
       IF d.tokens[tok].total_cost > total_cost
       THEN [d |-> [d EXCEPT !.tokens[tok].total_cost = total_cost,
                             !.tokens[tok].backpointer = backpointer],
             tok |-> tok, changed |-> TRUE]
       ELSE [d |-> d, tok |-> tok, changed |-> FALSE]

\* ------------------------------------------------------------ PropagateLm
\* a PropagateLm that moves the LM state and leaves arc->weight as the graph
\* has it: a faulty variant
PropagateLmBaseWeight(lm, lm_state, arc) ==
  IF arc.olabel = kWfstEpsilon
  THEN [ok |-> TRUE, arc |-> arc, next |-> lm_state]
  ELSE [ok |-> LmGetArc(lm, lm_state, arc.olabel).found,
        arc |-> arc,
        next |-> LmGetArc(lm, lm_state, arc.olabel).nextstate]

\* Returns the (possibly rewritten) arc and the next LM state; ok is FALSE
\* when the LM has no arc for the word, where the source calls exit(0).
PropagateLm(lm, lm_state, arc) ==
  IF arc.olabel = kWfstEpsilon
  THEN [ok |-> TRUE, arc |-> arc, next |-> lm_state]
  ELSE LET lm_arc == LmGetArc(lm, lm_state, arc.olabel) IN
       IF ~lm_arc.found
       THEN [ok |-> FALSE, arc |-> arc, next |-> lm_state]
       ELSE [ok |-> TRUE,
             arc |-> [arc EXCEPT !.weight = @ + lm_arc.weight,
                                 !.olabel = lm_arc.olabel],
             next |-> lm_arc.nextstate]

\* (lm_fst_ == NULL) ? 0 : PropagateLm(lm_state, &arc)
NextLm(d, lm_state, arc) ==
  IF d.lm_fst_ = NULL THEN [ok |-> TRUE, arc |-> arc, next |-> 0]
  ELSE PropagateLm(d.lm_fst_, lm_state, arc)

\* ------------------------------------------------------ ProcessNonemitting
\* the loop over the arcs of one popped state, from arc j on
RECURSIVE NonemittingArcs(_, _, _, _, _, _)
NonemittingArcs(d, queue, tok, state, cutoff, j) ==
  LET arcs == GraphArcs(d.la_fst_, ExtractLaState(state))
      cur_time == Len(d.token_net_) - 1
  IN
  IF j > Len(arcs) \/ d.failed # "" THEN [d |-> d, queue |-> queue]
  ELSE IF arcs[j].ilabel # kWfstEpsilon
  THEN NonemittingArcs(d, queue, tok, state, cutoff, j + 1)
  ELSE
    LET p == NextLm(d, ExtractLmState(state), arcs[j]) IN
    IF ~p.ok THEN [d |-> Fail(d, "exit"), queue |-> queue]
    ELSE
      LET total_cost == d.tokens[tok].total_cost + p.arc.weight IN
      IF total_cost < cutoff
      THEN LET next_state == ComposeViterbiState(p.arc.dst, p.next)
               r == FindOrAddToken(d, next_state, cur_time, total_cost, tok)
               d2 == [r.d EXCEPT !.tokens[tok].links =
                        << NewLink(r.tok, 0, p.arc.olabel, p.arc.weight, 0) >> \o @]
               q2 == IF r.changed THEN Append(queue, next_state) ELSE queue
           IN NonemittingArcs(d2, q2, tok, state, cutoff, j + 1)
      ELSE NonemittingArcs(d, queue, tok, state, cutoff, j + 1)

\* a loop that expands a popped token without deleting the links of its
\* earlier visit: a faulty variant of NonemittingLoop
RECURSIVE NonemittingLoopKeepLinks(_, _)
NonemittingLoopKeepLinks(r, cutoff) ==
  IF r.queue = << >> \/ r.d.failed # "" THEN r.d
  ELSE IF r.d.tokens[r.d.token_set_[Find(r.d.token_set_, r.queue[Len(r.queue)])].val].total_cost > cutoff
  THEN NonemittingLoopKeepLinks([d |-> r.d, queue |-> SubSeq(r.queue, 1, Len(r.queue) - 1)],
                                cutoff)
  ELSE NonemittingLoopKeepLinks(
         NonemittingArcs(r.d, SubSeq(r.queue, 1, Len(r.queue) - 1),
                         r.d.token_set_[Find(r.d.token_set_, r.queue[Len(r.queue)])].val,
                         r.queue[Len(r.queue)], cutoff, 1),
         cutoff)

\* one round of the while loop: the state at the back of queue_ is popped and
\* its token expanded.  r is the decoder and queue_ (not empty) before it
NonemittingRound(r, cutoff) ==
  LET state == r.queue[Len(r.queue)]
      rest == SubSeq(r.queue, 1, Len(r.queue) - 1)
      tok == r.d.token_set_[Find(r.d.token_set_, state)].val
  IN
  IF r.d.tokens[tok].total_cost > cutoff
  THEN [d |-> r.d, queue |-> rest]
  ELSE NonemittingArcs(DeleteLinksFromToken(r.d, tok), rest, tok, state, cutoff, 1)

\* while (!queue_.empty()): queue_ is used as a stack (back/pop_back)
\* r is the decoder and queue_ as the last round left them
RECURSIVE NonemittingLoop(_, _)
NonemittingLoop(r, cutoff) ==
  IF r.queue = << >> \/ r.d.failed # "" THEN r.d
  ELSE NonemittingLoop(NonemittingRound(r, cutoff), cutoff)

\* ProcessNonemitting up to its while loop: queue_ is filled from the active
\* index
ProcessNonemittingStart(d, cutoff) ==
  LET d0 == LogEvent(d, "ProcessNonemitting", Len(d.token_net_) - 1, cutoff)
      queue == [i \in 1..Len(d.token_set_) |-> d.token_set_[i].key]
  IN [d |-> IF queue = << >> THEN [d0 EXCEPT !.warned_ = TRUE] ELSE d0,
      queue |-> queue]

ProcessNonemitting(d, cutoff) ==
  IF d.token_net_ = << >> THEN Fail(d, "assert")
  ELSE NonemittingLoop(ProcessNonemittingStart(d, cutoff), cutoff)

\* ---------------------------------------------------------------- GetCutoff
RECURSIVE SortInsert(_, _)
SortInsert(sorted, x) ==
  IF sorted = << >> THEN << x >>
  ELSE IF x <= Head(sorted) THEN << x >> \o sorted
  ELSE << Head(sorted) >> \o SortInsert(Tail(sorted), x)
RECURSIVE Sort(_)
\* the values of seq in ascending order
Sort(seq) == IF seq = << >> THEN << >> ELSE SortInsert(Sort(Tail(seq)), Head(seq))

\* the first entry of least weight: (w < best_weight) replaces the best
RECURSIVE BestElem(_, _, _, _)
BestElem(costs, i, best_weight, best) ==
  IF i > Len(costs) THEN [weight |-> best_weight, elem |-> best]
  ELSE IF costs[i] < best_weight THEN BestElem(costs, i + 1, costs[i], i)
  ELSE BestElem(costs, i + 1, best_weight, best)

\* a GetCutoff that takes the beam cutoff whatever max_active and min_active
\* say: a faulty variant of GetCutoff
GetCutoffBeamOnly(d, list_head) ==
  LET b == BestElem([i \in 1..Len(list_head) |-> d.tokens[list_head[i].val].total_cost],
                    1, Inf, 0)
  IN [cutoff |-> Plus(b.weight, d.config_.beam), tok_count |-> Len(list_head),
      adaptive_beam |-> d.config_.beam, best_elem |-> b.elem]

\* GetCutoff over the snapshot list_head.  best_elem is an index into the
\* snapshot, 0 for NULL.  tmp_array_[k] after std::nth_element(.., begin + k,
\* ..) is the k-th smallest cost; the model's configurations keep
\* min_active <= max_active, where the second nth_element is well defined.
GetCutoff(d, list_head) ==
  LET c == d.config_
      costs == [i \in 1..Len(list_head) |-> d.tokens[list_head[i].val].total_cost]
      count == Len(list_head)
      b == BestElem(costs, 1, Inf, 0)
      best_weight == b.weight
      beam_cutoff == Plus(best_weight, c.beam)
  IN
  IF c.max_active = MaxInt32 /\ c.min_active = 0
  THEN [cutoff |-> beam_cutoff, tok_count |-> count,
        adaptive_beam |-> c.beam, best_elem |-> b.elem]
  ELSE
    LET tmp_array_ == Sort(costs)
        max_active_cutoff ==
          IF count > c.max_active THEN tmp_array_[c.max_active + 1] ELSE Inf
        min_active_cutoff ==
          IF count > c.min_active
          THEN (IF c.min_active = 0 THEN best_weight
                ELSE tmp_array_[c.min_active + 1])
          ELSE Inf
    IN
    IF max_active_cutoff < beam_cutoff
    THEN [cutoff |-> max_active_cutoff, tok_count |-> count,
          adaptive_beam |-> Minus(max_active_cutoff, best_weight) + c.beam_delta,
          best_elem |-> b.elem]
    ELSE IF min_active_cutoff > beam_cutoff
    THEN [cutoff |-> min_active_cutoff, tok_count |-> count,
          adaptive_beam |-> Plus(Minus(min_active_cutoff, best_weight), c.beam_delta),
          best_elem |-> b.elem]
    ELSE [cutoff |-> beam_cutoff, tok_count |-> count,
          adaptive_beam |-> c.beam, best_elem |-> b.elem]

\* ---------------------------------------------------------- ProcessEmitting
\* c is the record of the locals that stay fixed during the scans:
\* ll (the decodable), frame, cost_offset, adaptive_beam, cur_cutoff.

\* the pre-scan over the arcs of the best token: only next_cutoff comes out
RECURSIVE PreScanArcs(_, _, _, _, _, _)
PreScanArcs(d, c, tok, state, next_cutoff, j) ==
  LET arcs == GraphArcs(d.la_fst_, ExtractLaState(state)) IN
  IF j > Len(arcs) THEN [ok |-> TRUE, next_cutoff |-> next_cutoff]
  ELSE IF arcs[j].ilabel = kWfstEpsilon
  THEN PreScanArcs(d, c, tok, state, next_cutoff, j + 1)
  ELSE
    LET p == NextLm(d, ExtractLmState(state), arcs[j]) IN
    IF ~p.ok THEN [ok |-> FALSE, next_cutoff |-> next_cutoff]
    ELSE
      LET new_weight == d.tokens[tok].total_cost + p.arc.weight
                          + (0 - LogLikelihood(c.ll, c.frame, p.arc.ilabel))
                          + c.cost_offset
      IN IF Plus(new_weight, c.adaptive_beam) < next_cutoff
         THEN PreScanArcs(d, c, tok, state, Plus(new_weight, c.adaptive_beam), j + 1)
         ELSE PreScanArcs(d, c, tok, state, next_cutoff, j + 1)

\* the main scan over the arcs of one snapshot entry
RECURSIVE EmittingArcs(_, _, _, _, _, _)
EmittingArcs(d, c, tok, state, next_cutoff, j) ==
  LET arcs == GraphArcs(d.la_fst_, ExtractLaState(state)) IN
  IF j > Len(arcs) \/ d.failed # "" THEN [d |-> d, next_cutoff |-> next_cutoff]
  ELSE IF arcs[j].ilabel = kWfstEpsilon
  THEN EmittingArcs(d, c, tok, state, next_cutoff, j + 1)
  ELSE
    LET p == NextLm(d, ExtractLmState(state), arcs[j]) IN
    IF ~p.ok THEN [d |-> Fail(d, "exit"), next_cutoff |-> next_cutoff]
    ELSE
      LET ac_cost == c.cost_offset + (0 - LogLikelihood(c.ll, c.frame, p.arc.ilabel))
          graph_cost == p.arc.weight
          cur_cost == d.tokens[tok].total_cost
          total_cost == cur_cost + ac_cost + graph_cost
      IN
      IF total_cost > next_cutoff
      THEN EmittingArcs(d, c, tok, state, next_cutoff, j + 1)
      ELSE
        LET nc == IF Plus(total_cost, c.adaptive_beam) < next_cutoff
                  THEN Plus(total_cost, c.adaptive_beam) ELSE next_cutoff
            next_state == ComposeViterbiState(p.arc.dst, p.next)
            r == FindOrAddToken(d, next_state, c.frame + 1, total_cost, tok)
            d2 == [r.d EXCEPT !.tokens[tok].links =
                     << NewLink(r.tok, p.arc.ilabel, p.arc.olabel,
                                graph_cost, ac_cost) >> \o @]
        IN EmittingArcs(d2, c, tok, state, nc, j + 1)

\* for (Elem *e = prev_toks; e != NULL; e = e_tail)
\* r is the decoder and next_cutoff as the last round left them
RECURSIVE EmittingElems(_, _, _, _)
EmittingElems(r, c, prev_toks, i) ==
  IF i > Len(prev_toks) \/ r.d.failed # "" THEN r
  ELSE IF r.d.tokens[prev_toks[i].val].total_cost <= c.cur_cutoff
  THEN EmittingElems(EmittingArcs(r.d, c, prev_toks[i].val, prev_toks[i].key,
                                  r.next_cutoff, 1),
                     c, prev_toks, i + 1)
  ELSE EmittingElems(r, c, prev_toks, i + 1)

\* a resize that leaves one entry too many: a faulty variant of Resize
ResizeOneMore(seq, n) ==
  [i \in 1..(n + 1) |-> IF i <= Len(seq) THEN seq[i] ELSE 0]

\* cost_offsets_.resize(n, 0.0)
Resize(seq, n) ==
  [i \in 1..n |-> IF i <= Len(seq) THEN seq[i] ELSE 0]

\* Returns the decoder after the call and the returned next_cutoff.
\* return next_cutoff: r is the outcome of the main scan
EmittingReturn(r, frame) ==
  [d |-> LogEvent(r.d, "ProcessEmitting", frame, r.next_cutoff),
   next_cutoff |-> r.next_cutoff]

\* cost_offsets_[frame] = cost_offset and the main scan, after the pre-scan pre
EmittingScan(d, c, prev_toks, pre) ==
  IF ~pre.ok THEN [d |-> Fail(d, "exit"), next_cutoff |-> Inf]
  ELSE EmittingReturn(
         EmittingElems(
           [d |-> [d EXCEPT !.cost_offsets_ =
                     [Resize(@, c.frame + 1) EXCEPT ![c.frame + 1] = c.cost_offset]],
            next_cutoff |-> pre.next_cutoff],
           c, prev_toks, 1),
         c.frame)

\* if (best_elem): the pre-scan over the arcs of the best token
EmittingPreScan(d, c, prev_toks, best_elem) ==
  EmittingScan(d, c, prev_toks,
    IF best_elem = 0 THEN [ok |-> TRUE, next_cutoff |-> Inf]
    ELSE PreScanArcs(d, c, prev_toks[best_elem].val, prev_toks[best_elem].key, Inf, 1))

\* the locals fixed by the outputs g of GetCutoff
EmittingLocals(d, ll, frame, prev_toks, g) ==
  EmittingPreScan(d,
    [ll |-> ll, frame |-> frame,
     cost_offset |-> IF g.best_elem = 0 THEN 0
                     ELSE 0 - d.tokens[prev_toks[g.best_elem].val].total_cost,
     adaptive_beam |-> g.adaptive_beam, cur_cutoff |-> g.cutoff],
    prev_toks, g.best_elem)

ProcessEmitting(d, ll) ==
  IF d.token_net_ = << >> THEN [d |-> Fail(d, "assert"), next_cutoff |-> Inf]
  ELSE
    LET d1 == [d EXCEPT !.token_net_ = Append(@, NewTokenList),
                        !.token_set_ = << >>]
    IN EmittingLocals(d1, ll, Len(d.token_net_) - 1, d.token_set_,
                      GetCutoff(d1, d.token_set_))

\* -------------------------------------------------------- PruneForwardLinks
\* a link_extra_cost that leaves out "- next_tok->total_cost": a faulty
\* variant of LinkExtraCost
LinkExtraCostNoDst(d, tok, link) ==
  Plus(d.tokens[link.dst_tok].extra_cost,
       d.tokens[tok].total_cost + link.acoustic_cost + link.graph_cost)

\* link_extra_cost of one link of tok, from the current costs
LinkExtraCost(d, tok, link) ==
  Plus(d.tokens[link.dst_tok].extra_cost,
       (d.tokens[tok].total_cost + link.acoustic_cost + link.graph_cost)
         - d.tokens[link.dst_tok].total_cost)

\* a loop that leaves tok_extra_cost at the link_extra_cost of the last link
\* kept, not the least: a faulty variant of PruneLinks
RECURSIVE PruneLinksLast(_, _, _, _, _, _)
PruneLinksLast(d, tok, links, j, kept, tok_extra_cost) ==
  IF j > Len(links) THEN [links |-> kept, tok_extra_cost |-> tok_extra_cost]
  ELSE IF LinkExtraCost(d, tok, links[j]) > d.config_.lattice_beam
  THEN PruneLinksLast(d, tok, links, j + 1, kept, tok_extra_cost)
  ELSE PruneLinksLast(d, tok, links, j + 1, Append(kept, links[j]),
                      IF LinkExtraCost(d, tok, links[j]) < 0 THEN 0
                      ELSE LinkExtraCost(d, tok, links[j]))

\* the loop over the links of tok: the links kept (in order) and the least
\* link_extra_cost of a kept link, clamped at 0 from below, starting from init
RECURSIVE PruneLinks(_, _, _, _, _, _)
PruneLinks(d, tok, links, j, kept, tok_extra_cost) ==
  IF j > Len(links) THEN [links |-> kept, tok_extra_cost |-> tok_extra_cost]
  ELSE
    LET link_extra_cost == LinkExtraCost(d, tok, links[j]) IN
    IF link_extra_cost > d.config_.lattice_beam
    THEN PruneLinks(d, tok, links, j + 1, kept, tok_extra_cost)
    ELSE LET clamped == IF link_extra_cost < 0 THEN 0 ELSE link_extra_cost
         IN PruneLinks(d, tok, links, j + 1, Append(kept, links[j]),
                       IF clamped < tok_extra_cost THEN clamped ELSE tok_extra_cost)

\* one pass of the for loop over the tokens of frame t, from list position i
RECURSIVE PruneForwardLinksPass(_, _, _, _, _, _, _)
PruneForwardLinksPass(d, t, i, dnum, dden, changed, links_pruned) ==
  LET toks == d.token_net_[t + 1].toks IN
  IF i > Len(toks)
  THEN [d |-> d, changed |-> changed, links_pruned |-> links_pruned]
  ELSE
    LET tok == toks[i]
        r == PruneLinks(d, tok, d.tokens[tok].links, 1, << >>, Inf)
        ch == FabsDiffGreater(r.tok_extra_cost, d.tokens[tok].extra_cost, dnum, dden)
        d2 == [d EXCEPT !.tokens[tok].links = r.links,
                        !.tokens[tok].extra_cost = r.tok_extra_cost]
    IN PruneForwardLinksPass(d2, t, i + 1, dnum, dden, changed \/ ch,
                             links_pruned \/ Len(r.links) < Len(d.tokens[tok].links))

\* while (changed)
RECURSIVE PruneForwardLinksLoop(_, _, _, _, _, _)
PruneForwardLinksLoop(d, t, dnum, dden, extra_costs_changed, links_pruned) ==
  LET r == PruneForwardLinksPass(d, t, 1, dnum, dden, FALSE, FALSE) IN
  IF r.changed
  THEN PruneForwardLinksLoop(r.d, t, dnum, dden, TRUE, links_pruned \/ r.links_pruned)
  ELSE [d |-> r.d, extra_costs_changed |-> extra_costs_changed,
        links_pruned |-> links_pruned \/ r.links_pruned]

\* PruneForwardLinks(t, &extra_costs_changed, &links_pruned, delta) with
\* delta = dnum / dden
\* PruneForwardLinks up to its while (changed) loop, for a frame t that exists
PruneForwardLinksStart(d, t) ==
  LET d0 == LogEvent(d, "PruneForwardLinks", t, 0)
  IN IF d0.token_net_[t + 1].toks = << >> THEN [d0 EXCEPT !.warned_ = TRUE] ELSE d0

PruneForwardLinks(d, t, dnum, dden) ==
  IF ~(t >= 0 /\ t < Len(d.token_net_))
  THEN [d |-> Fail(d, "assert"), extra_costs_changed |-> FALSE, links_pruned |-> FALSE]
  ELSE PruneForwardLinksLoop(PruneForwardLinksStart(d, t), t, dnum, dden, FALSE, FALSE)

\* ------------------------------------------------------------ PruneTokenList
\* a PruneTokenList that forgets num_toks_--: a faulty variant
PruneTokenListNoCount(d, t) ==
  IF ~(t >= 0 /\ t < Len(d.token_net_)) THEN Fail(d, "assert")
  ELSE
    LET toks == d.token_net_[t + 1].toks
        dead == { toks[i] : i \in { k \in 1..Len(toks) :
                                      d.tokens[toks[k]].extra_cost = Inf } }
    IN [LogEvent(d, "PruneTokenList", t, 0) EXCEPT
          !.token_net_[t + 1].toks = SelectSeq(toks, LAMBDA x : x \notin dead),
          !.tokens = [i \in (DOMAIN @) \ dead |-> @[i]],
          !.state_of = [i \in (DOMAIN @) \ dead |-> @[i]]]

PruneTokenList(d, t) ==
  IF ~(t >= 0 /\ t < Len(d.token_net_)) THEN Fail(d, "assert")
  ELSE
    LET toks == d.token_net_[t + 1].toks
        dead == { toks[i] : i \in { k \in 1..Len(toks) :
                                      d.tokens[toks[k]].extra_cost = Inf } }
        kept == SelectSeq(toks, LAMBDA x : x \notin dead)
        d0 == LogEvent(d, "PruneTokenList", t, 0)
    IN [d0 EXCEPT !.token_net_[t + 1].toks = kept,
                  !.tokens = [i \in (DOMAIN @) \ dead |-> @[i]],
                  !.state_of = [i \in (DOMAIN @) \ dead |-> @[i]],
                  !.num_toks_ = @ - Cardinality(dead)]

\* -------------------------------------------------------------- PruneTokenNet
\* the body of the loop for frames t, t - 1, .., 0
\* the flags set from the outputs r of PruneForwardLinks(t, ..)
PruneTokenNetFlags(r, t) ==
  LET a == IF r.extra_costs_changed /\ t > 0
           THEN [r.d EXCEPT !.token_net_[t].must_prune_forward_links = TRUE]
           ELSE r.d
      b == IF r.links_pruned
           THEN [a EXCEPT !.token_net_[t + 1].must_prune_tokens = TRUE]
           ELSE a
  IN [b EXCEPT !.token_net_[t + 1].must_prune_forward_links = FALSE]

\* a loop body that leaves the PruneTokenList call out: a faulty variant of
\* PruneTokenNetTokens
PruneTokenNetTokensKept(d, t, cur_time) == d

\* if (t != cur_time - 1 && token_net_[t + 1].must_prune_tokens)
PruneTokenNetTokens(d, t, cur_time) ==
  IF d.failed = "" /\ t # cur_time - 1 /\ d.token_net_[t + 2].must_prune_tokens
  THEN [PruneTokenList(d, t + 1) EXCEPT !.token_net_[t + 2].must_prune_tokens = FALSE]
  ELSE d

RECURSIVE PruneTokenNetLoop(_, _, _, _, _)
PruneTokenNetLoop(d, t, cur_time, dnum, dden) ==
  IF t < 0 \/ d.failed # "" THEN d
  ELSE PruneTokenNetLoop(
         PruneTokenNetTokens(
           IF d.token_net_[t + 1].must_prune_forward_links
           THEN PruneTokenNetFlags(PruneForwardLinks(d, t, dnum, dden), t)
           ELSE d,
           t, cur_time),
         t - 1, cur_time, dnum, dden)

\* PruneTokenNet(delta), delta = dnum / dden
PruneTokenNet(d, dnum, dden) ==
  LET cur_time == NumFramesDecoded(d)
      d0 == LogEvent(d, "PruneTokenNet", cur_time, 0)
  IN PruneTokenNetLoop(d0, cur_time - 1, cur_time, dnum, dden)

\* ---------------------------------------------------------- ComputeFinalCosts
SetMin(S) == IF S = {} THEN Inf ELSE CHOOSE x \in S : \A y \in S : x <= y

\* The three outputs of ComputeFinalCosts, computed from the active index;
\* ok is FALSE where KALDI_ASSERT(!decoding_finalized_) fails.
ComputeFinalCosts(d) ==
  LET idx == 1..Len(d.token_set_)
      tokOf(i) == d.token_set_[i].val
      finalOf(i) ==
        Plus(GraphFinal(d.la_fst_, ExtractLaState(d.token_set_[i].key)),
             IF d.lm_fst_ = NULL THEN 0
             ELSE LmFinal(d.lm_fst_, ExtractLmState(d.token_set_[i].key)))
      best_cost == SetMin({ d.tokens[tokOf(i)].total_cost : i \in idx })
      best_cost_with_final ==
        SetMin({ Plus(d.tokens[tokOf(i)].total_cost, finalOf(i)) : i \in idx })
      finals == { i \in idx : finalOf(i) # Inf }
  IN
  [ok |-> ~d.decoding_finalized_,
   final_costs |-> [tok \in { tokOf(i) : i \in finals } |->
                      finalOf(CHOOSE i \in finals : tokOf(i) = tok)],
   final_relative_cost |->
     IF best_cost = Inf /\ best_cost_with_final = Inf THEN Inf
     ELSE Minus(best_cost_with_final, best_cost),
   final_best_cost |->
     IF best_cost_with_final # Inf THEN best_cost_with_final ELSE best_cost]

\* a FinalRelativeCost that calls ComputeFinalCosts whatever
\* decoding_finalized_ says and ignores the cached value: a faulty variant
FinalRelativeCostAnew(d) == ComputeFinalCosts(d).final_relative_cost

\* FinalRelativeCost(): computed while decoding, the cached value afterwards
FinalRelativeCost(d) ==
  IF ~d.decoding_finalized_ THEN ComputeFinalCosts(d).final_relative_cost
  ELSE d.final_relative_cost_

\* ReachedFinal(): FinalRelativeCost() != infinity
ReachedFinal(d) == FinalRelativeCost(d) # Inf

\* ------------------------------------------------------ PruneForwardLinksFinal
\* the final cost of tok under the map final_costs: 0 when the map is empty,
\* +infinity when the map has no entry for tok
FinalCostOf(final_costs, tok) ==
  IF DOMAIN final_costs = {} THEN 0
  ELSE IF tok \in DOMAIN final_costs THEN final_costs[tok] ELSE Inf

RECURSIVE PruneFinalPass(_, _, _, _)
PruneFinalPass(d, end_time, i, changed) ==
  LET toks == d.token_net_[end_time + 1].toks IN
  IF i > Len(toks) THEN [d |-> d, changed |-> changed]
  ELSE
    LET tok == toks[i]
        final_cost == FinalCostOf(d.final_costs_, tok)
        init == Minus(Plus(d.tokens[tok].total_cost, final_cost), d.final_best_cost_)
        r == PruneLinks(d, tok, d.tokens[tok].links, 1, << >>, init)
        tok_extra_cost == IF r.tok_extra_cost > d.config_.lattice_beam THEN Inf
                          ELSE r.tok_extra_cost
        ch == ~ApproxEqual(d.tokens[tok].extra_cost, tok_extra_cost)
        d2 == [d EXCEPT !.tokens[tok].links = r.links,
                        !.tokens[tok].extra_cost = tok_extra_cost]
    IN PruneFinalPass(d2, end_time, i + 1, changed \/ ch)

\* while (changed): r is the outcome of the last pass
RECURSIVE PruneFinalRepeat(_, _)
PruneFinalRepeat(r, end_time) ==
  IF r.changed THEN PruneFinalRepeat(PruneFinalPass(r.d, end_time, 1, FALSE), end_time)
  ELSE r.d
PruneFinalLoop(d, end_time) ==
  PruneFinalRepeat(PruneFinalPass(d, end_time, 1, FALSE), end_time)

\* a PruneForwardLinksFinal that leaves the elements of token_set_ in the
\* hash: a faulty variant of PruneForwardLinksFinalWith
PruneForwardLinksFinalKeepSet(d, end_time, f) ==
  IF ~f.ok THEN Fail(d, "assert")
  ELSE PruneFinalLoop(
         [LogEvent(d, "PruneForwardLinksFinal", end_time, 0) EXCEPT
            !.final_costs_ = f.final_costs,
            !.final_relative_cost_ = f.final_relative_cost,
            !.final_best_cost_ = f.final_best_cost,
            !.decoding_finalized_ = TRUE],
         end_time)

\* f is what ComputeFinalCosts put out
PruneForwardLinksFinalWith(d, end_time, f) ==
  IF ~f.ok THEN Fail(d, "assert")
  ELSE PruneFinalLoop(
         [LogEvent(d, "PruneForwardLinksFinal", end_time, 0) EXCEPT
            !.final_costs_ = f.final_costs,
            !.final_relative_cost_ = f.final_relative_cost,
            !.final_best_cost_ = f.final_best_cost,
            !.decoding_finalized_ = TRUE,
            !.token_set_ = << >>],
         end_time)

PruneForwardLinksFinal(d) ==
  IF d.token_net_ = << >> THEN Fail(d, "assert")
  ELSE PruneForwardLinksFinalWith(d, NumFramesDecoded(d), ComputeFinalCosts(d))

\* ------------------------------------------------------------ FinalizeDecoding
RECURSIVE FinalizeSweep(_, _)
\* a sweep that deletes the tokens of frame t + 1 without pruning the links
\* of frame t first: a faulty variant of FinalizeSweep
FinalizeSweepNoLinks(d, t) ==
  IF t < 0 \/ d.failed # "" THEN d
  ELSE FinalizeSweep(PruneTokenList(d, t + 1), t - 1)

FinalizeSweep(d, t) ==
  IF t < 0 \/ d.failed # "" THEN d
  ELSE FinalizeSweep(PruneTokenList(PruneForwardLinks(d, t, 0, 1).d, t + 1), t - 1)

\* a FinalizeDecoding that ends without PruneTokenList(0): a faulty variant of
\* FinalizeLast
FinalizeLastSkipped(d) == d

\* PruneTokenList(0), the last statement
FinalizeLast(d) == IF d.failed # "" THEN d ELSE PruneTokenList(d, 0)

FinalizeDecoding(d) ==
  FinalizeLast(FinalizeSweep(PruneForwardLinksFinal(d), NumFramesDecoded(d) - 1))

\* --------------------------------------------------------------- InitDecoding
\* ClearTokenNet: every token on a frame list is deleted and counted down
ClearTokenNet(d) ==
  LET listed == UNION { { d.token_net_[f].toks[i] : i \in 1..Len(d.token_net_[f].toks) }
                        : f \in 1..Len(d.token_net_) }
      n == d.num_toks_ - Cardinality(listed)
      d1 == [d EXCEPT !.tokens = [i \in (DOMAIN @) \ listed |-> @[i]],
                      !.state_of = [i \in (DOMAIN @) \ listed |-> @[i]],
                      !.num_toks_ = n,
                      !.token_net_ = << >>]
  IN IF n # 0 THEN Fail(d1, "assert") ELSE d1

\* InitDecoding up to its call of ProcessNonemitting
InitDecodingStart(d) ==
  LET d1 == ClearTokenNet([d EXCEPT !.token_set_ = << >>, !.cost_offsets_ = << >>])
  IN
  IF d1.failed # "" THEN d1
  ELSE
    LET d2 == [d1 EXCEPT !.warned_ = FALSE, !.num_toks_ = 0,
                         !.decoding_finalized_ = FALSE, !.final_costs_ = << >>,
                         !.nalloc = IF DOMAIN d1.tokens = {} THEN 0 ELSE @]
        lm_start_state == IF d.lm_fst_ = NULL THEN 0 ELSE LmStart(d.lm_fst_)
        start_state == ComposeViterbiState(GraphStart(d.la_fst_), lm_start_state)
        n == NewToken(d2, start_state, 0, 0, NULL)
        d3 == [n.d EXCEPT !.num_toks_ = @ + 1,
                          !.token_net_ = << [NewTokenList EXCEPT !.toks = << n.tok >>] >>,
                          !.token_set_ = Insert(@, start_state, n.tok)]
    IN d3

InitDecoding(d) ==
  IF InitDecodingStart(d).failed # "" THEN InitDecodingStart(d)
  ELSE ProcessNonemitting(InitDecodingStart(d), d.config_.beam)

\* ------------------------------------------------------------ AdvanceDecoding
\* one round of the driver loop for the next frame
\* a driver that hands ProcessNonemitting config_.beam and not the cutoff
\* ProcessEmitting returned: a faulty variant of DecodeFrameNonemitting
DecodeFrameNonemittingBeam(e) ==
  IF e.d.failed # "" THEN e.d ELSE ProcessNonemitting(e.d, e.d.config_.beam)

\* ProcessNonemitting(cost_cutoff): e is what ProcessEmitting put out
DecodeFrameNonemitting(e) ==
  IF e.d.failed # "" THEN e.d ELSE ProcessNonemitting(e.d, e.next_cutoff)

\* a driver whose PruneTokenNet passes take delta, lattice_beam * prune_scale,
\* for the lattice beam as well: a faulty variant of DecodeFrame
DecodeFrameDeltaBeam(d, ll) ==
  DecodeFrameNonemitting(
    ProcessEmitting(
      IF NumFramesDecoded(d) % d.config_.prune_interval = 0
      THEN [PruneTokenNet([d EXCEPT !.config_.lattice_beam =
                                      (@ * d.config_.prune_num) \div d.config_.prune_den],
                          d.config_.lattice_beam * d.config_.prune_num,
                          d.config_.prune_den)
              EXCEPT !.config_ = d.config_]
      ELSE d,
      ll))

DecodeFrame(d, ll) ==
  DecodeFrameNonemitting(
    ProcessEmitting(
      IF NumFramesDecoded(d) % d.config_.prune_interval = 0
      THEN PruneTokenNet(d, d.config_.lattice_beam * d.config_.prune_num,
                         d.config_.prune_den)
      ELSE d,
      ll))

RECURSIVE AdvanceLoop(_, _, _)
AdvanceLoop(d, ll, target_frames_decoded) ==
  IF d.failed # "" \/ ~(NumFramesDecoded(d) < target_frames_decoded) THEN d
  ELSE AdvanceLoop(DecodeFrame(d, ll), ll, target_frames_decoded)

\* an AdvanceDecoding that calls PruneTokenNet once as it starts, whatever
\* the frame: a faulty variant
AdvanceDecodingPruneFirst(d, ll, num_frames_ready, max_num_frames) ==
  IF ~(d.token_net_ # << >> /\ ~d.decoding_finalized_) THEN Fail(d, "assert")
  ELSE IF ~(num_frames_ready >= NumFramesDecoded(d)) THEN Fail(d, "assert")
  ELSE AdvanceLoop(PruneTokenNet(d, d.config_.lattice_beam * d.config_.prune_num,
                                 d.config_.prune_den),
                   ll,
                   IF max_num_frames >= 0
                   THEN Min2(num_frames_ready, NumFramesDecoded(d) + max_num_frames)
                   ELSE num_frames_ready)

\* an AdvanceDecoding whose first KALDI_ASSERT leaves out
\* !decoding_finalized_: a faulty variant
AdvanceDecodingFinalized(d, ll, num_frames_ready, max_num_frames) ==
  IF ~(d.token_net_ # << >>) THEN Fail(d, "assert")
  ELSE IF ~(num_frames_ready >= NumFramesDecoded(d)) THEN Fail(d, "assert")
  ELSE AdvanceLoop(d, ll,
         IF max_num_frames >= 0
         THEN Min2(num_frames_ready, NumFramesDecoded(d) + max_num_frames)
         ELSE num_frames_ready)

AdvanceDecoding(d, ll, num_frames_ready, max_num_frames) ==
  IF ~(d.token_net_ # << >> /\ ~d.decoding_finalized_) THEN Fail(d, "assert")
  ELSE IF ~(num_frames_ready >= NumFramesDecoded(d)) THEN Fail(d, "assert")
  ELSE
    LET target_frames_decoded ==
          IF max_num_frames >= 0
          THEN Min2(num_frames_ready, NumFramesDecoded(d) + max_num_frames)
          ELSE num_frames_ready
    IN AdvanceLoop(d, ll, target_frames_decoded)

\* --------------------------------------------------------------------- Decode
\* decodable->IsLastFrame(frame) of a decodable holding num_frames frames
IsLastFrame(num_frames, frame) == frame = num_frames - 1

RECURSIVE DecodeLoop(_, _, _)
DecodeLoop(d, ll, num_frames) ==
  IF d.failed # "" \/ IsLastFrame(num_frames, NumFramesDecoded(d) - 1) THEN d
  ELSE DecodeLoop(DecodeFrame(d, ll), ll, num_frames)

\* Returns the decoder after the call and the returned bool.
\* return !token_net_.empty() && token_net_.back().toks != NULL
DecodeReturn(d) ==
  [d |-> d,
   result |-> d.token_net_ # << >> /\ d.token_net_[Len(d.token_net_)].toks # << >>]

DecodeFinalize(d) == IF d.failed # "" THEN d ELSE FinalizeDecoding(d)

Decode(d, ll, num_frames) ==
  DecodeReturn(DecodeFinalize(DecodeLoop(InitDecoding(d), ll, num_frames)))

\* ---------------------------------------------------------------- BestPathEnd
\* the final-cost map a reader works with: the cached one once finalized,
\* else a local one, filled only when use_final_probs
\* the outputs f of ComputeFinalCosts as the reader's local map
ReaderLocalCosts(f) == [ok |-> f.ok, final_costs |-> f.final_costs]

\* a reader that computes the final costs anew whatever decoding_finalized_
\* says: a faulty variant of ReaderFinalCosts
ReaderFinalCostsAnew(d, use_final_probs) ==
  IF use_final_probs THEN ReaderLocalCosts(ComputeFinalCosts(d))
  ELSE [ok |-> TRUE, final_costs |-> << >>]

ReaderFinalCosts(d, use_final_probs) ==
  IF d.decoding_finalized_ THEN [ok |-> TRUE, final_costs |-> d.final_costs_]
  ELSE IF use_final_probs THEN ReaderLocalCosts(ComputeFinalCosts(d))
  ELSE [ok |-> TRUE, final_costs |-> << >>]

\* a loop that compares total_cost alone and leaves the final costs out: a
\* faulty variant of BestPathEndLoop
RECURSIVE BestPathEndLoopTotal(_, _, _, _, _, _, _, _)
BestPathEndLoopTotal(d, toks, i, use_final_probs, final_costs, best_cost, best_tok, best_final_cost) ==
  IF i > Len(toks) THEN [tok |-> best_tok, final_cost |-> best_final_cost]
  ELSE IF d.tokens[toks[i]].total_cost < best_cost
       THEN BestPathEndLoopTotal(d, toks, i + 1, use_final_probs, final_costs,
                                 d.tokens[toks[i]].total_cost, toks[i], 0)
       ELSE BestPathEndLoopTotal(d, toks, i + 1, use_final_probs, final_costs,
                                 best_cost, best_tok, best_final_cost)

\* the loop over the tokens of the last frame
RECURSIVE BestPathEndLoop(_, _, _, _, _, _, _, _)
BestPathEndLoop(d, toks, i, use_final_probs, final_costs, best_cost, best_tok, best_final_cost) ==
  IF i > Len(toks) THEN [tok |-> best_tok, final_cost |-> best_final_cost]
  ELSE
    LET tok == toks[i]
        use == use_final_probs /\ DOMAIN final_costs # {}
        final_cost == IF use /\ tok \in DOMAIN final_costs THEN final_costs[tok] ELSE 0
        cost == IF use
                THEN (IF tok \in DOMAIN final_costs
                      THEN d.tokens[tok].total_cost + final_cost ELSE Inf)
                ELSE d.tokens[tok].total_cost
    IN IF cost < best_cost
       THEN BestPathEndLoop(d, toks, i + 1, use_final_probs, final_costs,
                            cost, tok, final_cost)
       ELSE BestPathEndLoop(d, toks, i + 1, use_final_probs, final_costs,
                            best_cost, best_tok, best_final_cost)

\* outcome "ok": the iterator (tok, frame) and *final_cost_out
\* return BestPathIterator(best_tok, NumFramesDecoded() - 1): b is the
\* outcome of the loop
BestPathEndReturn(d, b) ==
  [outcome |-> "ok", tok |-> b.tok, frame |-> NumFramesDecoded(d) - 1,
   final_cost |-> b.final_cost]

\* fc is the final-cost map the reader works with
BestPathEndOver(d, use_final_probs, fc) ==
  IF ~fc.ok
  THEN [outcome |-> "assert", tok |-> NULL, frame |-> 0, final_cost |-> 0]
  ELSE BestPathEndReturn(d,
         BestPathEndLoop(d, d.token_net_[Len(d.token_net_)].toks, 1,
                         use_final_probs, fc.final_costs, Inf, NULL, 0))

BestPathEnd(d, use_final_probs) ==
  IF d.decoding_finalized_ /\ ~use_final_probs
  THEN [outcome |-> "error", tok |-> NULL, frame |-> 0, final_cost |-> 0]
  ELSE IF ~(NumFramesDecoded(d) > 0)
  THEN [outcome |-> "assert", tok |-> NULL, frame |-> 0, final_cost |-> 0]
  ELSE BestPathEndOver(d, use_final_probs, ReaderFinalCosts(d, use_final_probs))

\* ---------------------------------------------------------- TraceBackBestPath
\* the first link of the list links whose dst_tok is tok, 0 if there is none
RECURSIVE FindLinkTo(_, _, _)
FindLinkTo(links, tok, j) ==
  IF j > Len(links) THEN 0
  ELSE IF links[j].dst_tok = tok THEN j ELSE FindLinkTo(links, tok, j + 1)

\* an arc whose weight leaves the graph cost out: a faulty variant of
\* MkLatticeArc
MkLatticeArcNoGraph(i, o, g, a) ==
  [ilabel |-> i, olabel |-> o, graph_cost |-> 0, acoustic_cost |-> a]

\* LatticeArc(ilabel, olabel, LatticeWeight(graph_cost, acoustic_cost), .)
MkLatticeArc(i, o, g, a) ==
  [ilabel |-> i, olabel |-> o, graph_cost |-> g, acoustic_cost |-> a]

\* a traceback that steps the frame index back on every arc, epsilon arcs
\* included: a faulty variant of TraceBackBestPath
TraceBackBestPathEveryArc(d, tok, frame) ==
  LET none == [outcome |-> "ok", tok |-> NULL, frame |-> frame,
               arc |-> MkLatticeArc(0, 0, 0, 0)]
  IN
  IF tok = NULL THEN [none EXCEPT !.outcome = "assert"]
  ELSE IF tok \notin DOMAIN d.tokens THEN [none EXCEPT !.outcome = "dangling"]
  ELSE
    LET bp == d.tokens[tok].backpointer IN
    IF bp = NULL THEN none
    ELSE IF bp \notin DOMAIN d.tokens THEN [none EXCEPT !.outcome = "dangling"]
    ELSE
      LET links == d.tokens[bp].links
          j == FindLinkTo(links, tok, 1)
      IN
      IF j = 0 THEN [none EXCEPT !.outcome = "error"]
      ELSE IF links[j].ilabel # 0
      THEN IF ~(frame >= 0 /\ frame < Len(d.cost_offsets_))
           THEN [none EXCEPT !.outcome = "assert"]
           ELSE [outcome |-> "ok", tok |-> bp, frame |-> frame - 1,
                 arc |-> MkLatticeArc(links[j].ilabel, links[j].olabel,
                                      links[j].graph_cost,
                                      links[j].acoustic_cost
                                        - d.cost_offsets_[frame + 1])]
      ELSE [outcome |-> "ok", tok |-> bp, frame |-> frame - 1,
            arc |-> MkLatticeArc(links[j].ilabel, links[j].olabel,
                                 links[j].graph_cost, links[j].acoustic_cost)]

\* outcome "ok": the next iterator and *oarc; "error": the link to tok was not
\* found (KALDI_ERR); "assert": a KALDI_ASSERT failed; "dangling": the
\* iterator or the backpointer names a deleted token (undefined behaviour)
TraceBackBestPath(d, tok, frame) ==
  LET none == [outcome |-> "ok", tok |-> NULL, frame |-> frame,
               arc |-> MkLatticeArc(0, 0, 0, 0)]
  IN
  IF tok = NULL THEN [none EXCEPT !.outcome = "assert"]
  ELSE IF tok \notin DOMAIN d.tokens THEN [none EXCEPT !.outcome = "dangling"]
  ELSE
    LET bp == d.tokens[tok].backpointer IN
    IF bp = NULL THEN none
    ELSE IF bp \notin DOMAIN d.tokens THEN [none EXCEPT !.outcome = "dangling"]
    ELSE
      LET links == d.tokens[bp].links
          j == FindLinkTo(links, tok, 1)
      IN
      IF j = 0 THEN [none EXCEPT !.outcome = "error"]
      ELSE IF links[j].ilabel # 0
      THEN IF ~(frame >= 0 /\ frame < Len(d.cost_offsets_))
           THEN [none EXCEPT !.outcome = "assert"]
           ELSE [outcome |-> "ok", tok |-> bp, frame |-> frame - 1,
                 arc |-> MkLatticeArc(links[j].ilabel, links[j].olabel,
                                      links[j].graph_cost,
                                      links[j].acoustic_cost
                                        - d.cost_offsets_[frame + 1])]
      ELSE [outcome |-> "ok", tok |-> bp, frame |-> frame,
            arc |-> MkLatticeArc(links[j].ilabel, links[j].olabel,
                                 links[j].graph_cost, links[j].acoustic_cost)]

\* ---------------------------------------------------------------- GetBestPath
\* while (!iter.Done()): the arcs traced so far, last traced first in the
\* lattice.  fuel bounds the walk by the number of tokens ever allocated; a
\* walk that outlives it goes round a cycle of backpointers ("loop").
RECURSIVE TraceLoop(_, _, _, _, _)
TraceLoop(d, tok, frame, arcs, fuel) ==
  IF tok = NULL THEN [outcome |-> "ok", arcs |-> arcs, frame |-> frame]
  ELSE IF fuel = 0 THEN [outcome |-> "loop", arcs |-> arcs, frame |-> frame]
  ELSE
    LET r == TraceBackBestPath(d, tok, frame) IN
    IF r.outcome # "ok" THEN [outcome |-> r.outcome, arcs |-> arcs, frame |-> frame]
    ELSE TraceLoop(d, r.tok, r.frame, << r.arc >> \o arcs, fuel - 1)

\* outcome "ok": result is the returned bool, arcs the path from the start
\* state to the final state of olat, final_cost the weight of its final state
\* t is the outcome of the walk
GetBestPathReturn(final_cost, t) ==
  [outcome |-> t.outcome, result |-> t.outcome = "ok", arcs |-> t.arcs,
   final_cost |-> final_cost, frame |-> t.frame]

\* b is what BestPathEnd put out
GetBestPathFrom(d, b) ==
  IF b.outcome # "ok" \/ b.tok = NULL
  THEN [outcome |-> b.outcome, result |-> FALSE, arcs |-> << >>,
        final_cost |-> 0, frame |-> 0]
  ELSE GetBestPathReturn(b.final_cost,
                         TraceLoop(d, b.tok, b.frame, << >>, d.nalloc + 1))

GetBestPath(d, use_final_probs) == GetBestPathFrom(d, BestPathEnd(d, use_final_probs))

\* -------------------------------------------------------------- TopSortTokens
\* the members of a set of tokens, in ascending order
RECURSIVE SeqOf(_)
SeqOf(S) ==
  IF S = {} THEN << >>
  ELSE SeqOf(S \ {CHOOSE x \in S : \A y \in S : y <= x})
         \o << CHOOSE x \in S : \A y \in S : y <= x >>

\* the loop over the links of tok, whose position was pos when the loop
\* began: an epsilon link to a token of this frame placed before tok moves
\* that token to position cur_pos++ and marks it for reprocessing.
\* r holds token2pos, cur_pos and reprocess.
RECURSIVE TopSortLinks(_, _, _, _, _)
TopSortLinks(r, d, tok, pos, j) ==
  IF j > Len(d.tokens[tok].links) THEN r
  ELSE IF /\ d.tokens[tok].links[j].ilabel = 0
          /\ d.tokens[tok].links[j].dst_tok \in DOMAIN r.token2pos
          /\ r.token2pos[d.tokens[tok].links[j].dst_tok] < pos
  THEN TopSortLinks(
         [token2pos |-> [r.token2pos EXCEPT ![d.tokens[tok].links[j].dst_tok] = r.cur_pos],
          cur_pos |-> r.cur_pos + 1,
          reprocess |-> r.reprocess \cup {d.tokens[tok].links[j].dst_tok}],
         d, tok, pos, j + 1)
  ELSE TopSortLinks(r, d, tok, pos, j + 1)

\* reprocess.erase(tok)
TopSortErase(r, tok) == [r EXCEPT !.reprocess = @ \ {tok}]

\* the first pass over token2pos.  The iteration order of an unordered_map is
\* unspecified; the model walks the tokens in list order.
RECURSIVE TopSortFirst(_, _, _, _)
TopSortFirst(r, d, toks, i) ==
  IF i > Len(toks) THEN r
  ELSE TopSortFirst(
         TopSortErase(TopSortLinks(r, d, toks[i], r.token2pos[toks[i]], 1), toks[i]),
         d, toks, i + 1)

\* one pass over reprocess_vec
RECURSIVE TopSortVec(_, _, _, _)
TopSortVec(r, d, vec, i) ==
  IF i > Len(vec) THEN r
  ELSE TopSortVec(TopSortLinks(r, d, vec[i], r.token2pos[vec[i]], 1), d, vec, i + 1)

max_loop == 1000000

\* the loop that runs until reprocess is empty; ok is FALSE where
\* KALDI_ASSERT(loop_count < max_loop) fails
RECURSIVE TopSortRepeat(_, _, _)
TopSortRepeat(r, d, loop_count) ==
  IF r.reprocess = {} THEN [ok |-> TRUE, r |-> r]
  ELSE IF ~(loop_count < max_loop) THEN [ok |-> FALSE, r |-> r]
  ELSE TopSortRepeat(
         TopSortVec([r EXCEPT !.reprocess = {}], d, SeqOf(r.reprocess), 1),
         d, loop_count + 1)

\* topsorted_list: the token at each position, NULL where there is none
TopSortList(t) ==
  [ok |-> t.ok,
   list |-> [k \in 1..t.r.cur_pos |->
               IF \E tok \in DOMAIN t.r.token2pos : t.r.token2pos[tok] = k - 1
               THEN CHOOSE tok \in DOMAIN t.r.token2pos : t.r.token2pos[tok] = k - 1
               ELSE NULL]]

\* a TopSortTokens that numbers the tokens 0, 1, ..., num_toks - 1 in list
\* order: a faulty variant
TopSortTokensAscending(d, toks) ==
  TopSortList(
    TopSortRepeat(
      TopSortFirst([token2pos |-> [tok \in { toks[k] : k \in 1..Len(toks) } |->
                                     (CHOOSE k \in 1..Len(toks) : toks[k] = tok) - 1],
                    cur_pos |-> Len(toks), reprocess |-> {}],
                   d, toks, 1),
      d, 0))

\* TopSortTokens(tok_list, &topsorted_list): the tokens start at positions
\* num_toks - 1, ..., 1, 0 in list order
TopSortTokens(d, toks) ==
  TopSortList(
    TopSortRepeat(
      TopSortFirst([token2pos |-> [tok \in { toks[k] : k \in 1..Len(toks) } |->
                                     Len(toks) - (CHOOSE k \in 1..Len(toks) : toks[k] = tok)],
                    cur_pos |-> Len(toks), reprocess |-> {}],
                   d, toks, 1),
      d, 0))

\* ---------------------------------------------------------------- GetRawLattice
\* A lattice: its states are named by the tokens they were made for; states
\* lists them in the order of AddState (state 0 first), start is the start
\* state (NULL for none), arcs the arcs (src and idx tell parallel arcs
\* apart), finals the final cost of each final state.
NoLattice == [start |-> NULL, states |-> << >>, arcs |-> {}, finals |-> << >>]

\* the tokens on the list of frame slot f of d
ToksOf(d, f) == { d.token_net_[f].toks[i] : i \in 1..Len(d.token_net_[f].toks) }

\* "First create all states": t is the topsorted list of frame slot f
RECURSIVE RawStates(_, _, _)
RawStatesNext(d, f, states, t) ==
  IF ~t.ok THEN [outcome |-> "assert", result |-> FALSE, states |-> states]
  ELSE RawStates(d, f + 1, states \o SelectSeq(t.list, LAMBDA x : x # NULL))
RawStates(d, f, states) ==
  IF f > Len(d.token_net_) THEN [outcome |-> "ok", result |-> TRUE, states |-> states]
  ELSE IF d.token_net_[f].toks = << >>
  THEN [outcome |-> "ok", result |-> FALSE, states |-> states]
  ELSE RawStatesNext(d, f, states, TopSortTokens(d, d.token_net_[f].toks))

\* an arc that keeps the link's acoustic_cost, offset included: a faulty
\* variant of RawArc
RawArcWithOffset(d, f, tok, j) ==
  [src |-> tok, idx |-> j,
   ilabel |-> d.tokens[tok].links[j].ilabel,
   olabel |-> d.tokens[tok].links[j].olabel,
   graph_cost |-> d.tokens[tok].links[j].graph_cost,
   acoustic_cost |-> d.tokens[tok].links[j].acoustic_cost,
   dst |-> d.tokens[tok].links[j].dst_tok]

\* the arc made for link j of token tok of frame slot f
RawArc(d, f, tok, j) ==
  [src |-> tok, idx |-> j,
   ilabel |-> d.tokens[tok].links[j].ilabel,
   olabel |-> d.tokens[tok].links[j].olabel,
   graph_cost |-> d.tokens[tok].links[j].graph_cost,
   acoustic_cost |-> d.tokens[tok].links[j].acoustic_cost
                       - (IF d.tokens[tok].links[j].ilabel # 0
                          THEN d.cost_offsets_[f] ELSE 0),
   dst |-> d.tokens[tok].links[j].dst_tok]

\* "Now create all arcs": the two KALDI_ASSERTs of the loop hold for every link
RawArcsOk(d, states) ==
  \A f \in 1..Len(d.token_net_) : \A tok \in ToksOf(d, f) :
    \A j \in 1..Len(d.tokens[tok].links) :
      /\ \E k \in 1..Len(states) : states[k] = d.tokens[tok].links[j].dst_tok
      /\ d.tokens[tok].links[j].ilabel # 0 => f - 1 < Len(d.cost_offsets_)
RawArcs(d) ==
  UNION { UNION { { RawArc(d, f, tok, j) : j \in 1..Len(d.tokens[tok].links) } :
                  tok \in ToksOf(d, f) } :
          f \in 1..Len(d.token_net_) }

\* final weights taken from the map alone, so none when the map is empty: a
\* faulty variant of LatticeFinals
LatticeFinalsMap(toks, use_final_probs, final_costs) ==
  [tok \in toks \cap DOMAIN final_costs |-> final_costs[tok]]

\* the final weights of the states toks made for last-frame tokens: the final
\* cost of the map for its tokens when use_final_probs and the map is not
\* empty, LatticeWeight::One() for every token otherwise
LatticeFinals(toks, use_final_probs, final_costs) ==
  IF use_final_probs /\ DOMAIN final_costs # {}
  THEN [tok \in toks \cap DOMAIN final_costs |-> final_costs[tok]]
  ELSE [tok \in toks |-> 0]

\* the lattice written, st being the outcome of the state loop
RawLatticeBuilt(d, use_final_probs, fc, st) ==
  IF st.outcome # "ok" \/ ~st.result
  THEN [outcome |-> st.outcome, result |-> FALSE, final_costs |-> fc.final_costs,
        lattice |-> [NoLattice EXCEPT !.states = st.states]]
  ELSE IF ~RawArcsOk(d, st.states)
  THEN [outcome |-> "assert", result |-> FALSE, final_costs |-> fc.final_costs,
        lattice |-> [NoLattice EXCEPT !.states = st.states]]
  ELSE [outcome |-> "ok", result |-> Len(st.states) > 0,
        final_costs |-> fc.final_costs,
        lattice |-> [start |-> st.states[1], states |-> st.states,
                     arcs |-> RawArcs(d),
                     finals |-> LatticeFinals(ToksOf(d, Len(d.token_net_)),
                                              use_final_probs, fc.final_costs)]]

\* a lattice reader that skips empty frames and returns NumStates() > 0:
\* a faulty variant of RawLatticeOver
RawLatticeOverAny(d, use_final_probs, fc) ==
  IF ~fc.ok \/ ~(Len(d.token_net_) - 1 > 0)
  THEN [outcome |-> "assert", result |-> FALSE, final_costs |-> << >>,
        lattice |-> NoLattice]
  ELSE [outcome |-> "ok",
        result |-> \E f \in 1..Len(d.token_net_) : d.token_net_[f].toks # << >>,
        final_costs |-> fc.final_costs, lattice |-> NoLattice]

\* fc is the final-cost map the reader works with; "assert" when no frame
\* was decoded, FALSE when some frame has no token
RawLatticeOver(d, use_final_probs, fc) ==
  IF ~fc.ok \/ ~(Len(d.token_net_) - 1 > 0)
  THEN [outcome |-> "assert", result |-> FALSE, final_costs |-> << >>,
        lattice |-> NoLattice]
  ELSE RawLatticeBuilt(d, use_final_probs, fc, RawStates(d, 1, << >>))

\* "error" after finalization without final probs
RawLatticeOutcome(d, use_final_probs) ==
  IF d.decoding_finalized_ /\ ~use_final_probs
  THEN [outcome |-> "error", result |-> FALSE, final_costs |-> << >>,
        lattice |-> NoLattice]
  ELSE RawLatticeOver(d, use_final_probs, ReaderFinalCosts(d, use_final_probs))

GetRawLattice(d, use_final_probs) == RawLatticeOutcome(d, use_final_probs)

\* ShortestPath(raw_lat, &lat1) of TestGetBestPath: the least cost from the
\* start state to each state of lat, by relaxing every arc until no distance
\* changes (NumStates() rounds at most)
ArcCost(arc) == arc.graph_cost + arc.acoustic_cost
ShortestRelax(lat, dist) ==
  [v \in DOMAIN dist |->
     SetMin({dist[v]} \cup { Plus(dist[arc.src], ArcCost(arc)) :
                               arc \in { x \in lat.arcs : x.dst = v } })]
RECURSIVE ShortestIterate(_, _, _)
ShortestNext(lat, dist, next, n) ==
  IF next = dist THEN dist ELSE ShortestIterate(lat, next, n - 1)
ShortestIterate(lat, dist, n) ==
  IF n = 0 THEN dist ELSE ShortestNext(lat, dist, ShortestRelax(lat, dist), n)
ShortestDistance(lat) ==
  ShortestIterate(lat,
                  [v \in { lat.states[k] : k \in 1..Len(lat.states) } |->
                     IF v = lat.start THEN 0 ELSE Inf],
                  Len(lat.states))
\* the cost of the path ShortestPath puts out: the least distance plus final
\* weight over the final states
ShortestPathOver(lat, dist) ==
  SetMin({ Plus(dist[v], lat.finals[v]) : v \in DOMAIN lat.finals })
ShortestPathCost(lat) == ShortestPathOver(lat, ShortestDistance(lat))

\* ---------------------------------------------------------- GetRawLatticePruned
\* a loop that takes a link whose destination has extra_cost <= beam: a
\* faulty variant of PrunedLinks
RECURSIVE PrunedLinksInclusive(_, _, _, _, _, _)
PrunedLinksInclusive(q, d, cur_tok, cur_frame, beam, j) ==
  IF j > Len(d.tokens[cur_tok].links) THEN q
  ELSE IF ~(d.tokens[d.tokens[cur_tok].links[j].dst_tok].extra_cost <= beam)
  THEN PrunedLinksInclusive(q, d, cur_tok, cur_frame, beam, j + 1)
  ELSE PrunedLinksInclusive(
         [queue |-> IF \E k \in 1..Len(q.states) :
                         q.states[k] = d.tokens[cur_tok].links[j].dst_tok
                    THEN q.queue
                    ELSE Append(q.queue,
                                << d.tokens[cur_tok].links[j].dst_tok,
                                   IF d.tokens[cur_tok].links[j].ilabel = 0
                                   THEN cur_frame ELSE cur_frame + 1 >>),
          states |-> IF \E k \in 1..Len(q.states) :
                          q.states[k] = d.tokens[cur_tok].links[j].dst_tok
                     THEN q.states
                     ELSE Append(q.states, d.tokens[cur_tok].links[j].dst_tok),
          arcs |-> q.arcs \cup {RawArc(d, cur_frame + 1, cur_tok, j)},
          finals |-> q.finals],
         d, cur_tok, cur_frame, beam, j + 1)

\* the loop over the links of cur_tok: a link whose destination has
\* extra_cost < beam gets an arc, and its destination a state and a place in
\* the queue when it has none.  q holds tok_queue (pairs of token and
\* frame), the states made and the arcs made.
RECURSIVE PrunedLinks(_, _, _, _, _, _)
PrunedLinks(q, d, cur_tok, cur_frame, beam, j) ==
  IF j > Len(d.tokens[cur_tok].links) THEN q
  ELSE IF ~(d.tokens[d.tokens[cur_tok].links[j].dst_tok].extra_cost < beam)
  THEN PrunedLinks(q, d, cur_tok, cur_frame, beam, j + 1)
  ELSE PrunedLinks(
         [queue |-> IF \E k \in 1..Len(q.states) :
                         q.states[k] = d.tokens[cur_tok].links[j].dst_tok
                    THEN q.queue
                    ELSE Append(q.queue,
                                << d.tokens[cur_tok].links[j].dst_tok,
                                   IF d.tokens[cur_tok].links[j].ilabel = 0
                                   THEN cur_frame ELSE cur_frame + 1 >>),
          states |-> IF \E k \in 1..Len(q.states) :
                          q.states[k] = d.tokens[cur_tok].links[j].dst_tok
                     THEN q.states
                     ELSE Append(q.states, d.tokens[cur_tok].links[j].dst_tok),
          arcs |-> q.arcs \cup {RawArc(d, cur_frame + 1, cur_tok, j)},
          finals |-> q.finals],
         d, cur_tok, cur_frame, beam, j + 1)

\* if (cur_frame == num_frames): the final weight of the state of cur_tok
PrunedFinal(q, d, cur_tok, cur_frame, use_final_probs, final_costs) ==
  IF cur_frame = Len(d.token_net_) - 1
  THEN [q EXCEPT !.finals = @ @@ LatticeFinals({cur_tok}, use_final_probs, final_costs)]
  ELSE q

\* while (!tok_queue.empty()); ok is FALSE where
\* KALDI_ASSERT(cur_frame >= 0 && cur_frame <= cost_offsets_.size()) fails
RECURSIVE PrunedLoop(_, _, _, _, _)
PrunedLoop(q, d, beam, use_final_probs, final_costs) ==
  IF q.queue = << >> THEN [ok |-> TRUE, q |-> q]
  ELSE IF ~(Head(q.queue)[2] >= 0 /\ Head(q.queue)[2] <= Len(d.cost_offsets_))
  THEN [ok |-> FALSE, q |-> q]
  ELSE PrunedLoop(
         PrunedFinal(
           PrunedLinks([q EXCEPT !.queue = Tail(@)], d, Head(q.queue)[1],
                       Head(q.queue)[2], beam, 1),
           d, Head(q.queue)[1], Head(q.queue)[2], use_final_probs, final_costs),
         d, beam, use_final_probs, final_costs)

\* the lattice written, p being the outcome of the queue loop
PrunedLatticeBuilt(fc, p) ==
  IF ~p.ok
  THEN [outcome |-> "assert", result |-> FALSE, final_costs |-> fc.final_costs,
        lattice |-> NoLattice]
  ELSE [outcome |-> "ok", result |-> Len(p.q.states) # 0,
        final_costs |-> fc.final_costs,
        lattice |-> [start |-> p.q.states[1], states |-> p.q.states,
                     arcs |-> p.q.arcs, finals |-> p.q.finals]]

\* every link of a listed token points to a live token; where one does not,
\* dst_tok->extra_cost reads a deleted token (undefined behaviour)
LinksLive(d) ==
  \A f \in 1..Len(d.token_net_) : \A tok \in ToksOf(d, f) :
    \A j \in 1..Len(d.tokens[tok].links) :
      d.tokens[tok].links[j].dst_tok \in DOMAIN d.tokens

\* the start state is made for the last token of the list of frame 0
PrunedLatticeOver(d, use_final_probs, beam, fc) ==
  IF ~fc.ok \/ ~(Len(d.token_net_) - 1 > 0)
  THEN [outcome |-> "assert", result |-> FALSE, final_costs |-> << >>,
        lattice |-> NoLattice]
  ELSE IF ~LinksLive(d)
  THEN [outcome |-> "dangling", result |-> FALSE, final_costs |-> << >>,
        lattice |-> NoLattice]
  ELSE IF \E f \in 1..Len(d.token_net_) : d.token_net_[f].toks = << >>
  THEN [outcome |-> "ok", result |-> FALSE, final_costs |-> fc.final_costs,
        lattice |-> NoLattice]
  ELSE PrunedLatticeBuilt(fc,
         PrunedLoop([queue |-> << << d.token_net_[1].toks[Len(d.token_net_[1].toks)], 0 >> >>,
                     states |-> << d.token_net_[1].toks[Len(d.token_net_[1].toks)] >>,
                     arcs |-> {}, finals |-> << >>],
                    d, beam, use_final_probs, fc.final_costs))

GetRawLatticePruned(d, use_final_probs, beam) ==
  IF d.decoding_finalized_ /\ ~use_final_probs
  THEN [outcome |-> "error", result |-> FALSE, final_costs |-> << >>,
        lattice |-> NoLattice]
  ELSE PrunedLatticeOver(d, use_final_probs, beam, ReaderFinalCosts(d, use_final_probs))

\* ===================================================================== state
VARIABLES
  la_fst_,               \* the decoding graph (an index into Graphs)
  lm_fst_,               \* the LM-diff oracle, NULL for none
  config_,               \* DecCoreConfig
  ll,                    \* the decodable object: its likelihood table
  token_net_,            \* std::vector<TokenList>, frame t at index t + 1
  tokens,                \* the live Tokens, by identity
  state_of,              \* for each live token, the search state it stands for
  token_set_,            \* the active index
  cost_offsets_,
  num_toks_,
  warned_,
  decoding_finalized_,
  final_costs_,
  final_relative_cost_,
  final_best_cost_,
  nalloc,                \* tokens allocated since the token store was last empty
  log,                   \* the driver's calls during the last public call
  failed,                \* "" or how the process ended: "assert", "exit"
  ret,                   \* the last public call, its arguments and what it returned
  queue_,                \* the work list of ProcessNonemitting
  pc                     \* where the call in progress stands, with its locals

vars == << la_fst_, lm_fst_, config_, ll, token_net_, tokens, state_of,
           token_set_, cost_offsets_, num_toks_, warned_, decoding_finalized_,
           final_costs_, final_relative_cost_, final_best_cost_, nalloc, log,
           failed, ret, queue_, pc >>

env == << la_fst_, lm_fst_, config_, ll >>

\* the decoder object as a value
Self ==
  [la_fst_ |-> la_fst_, lm_fst_ |-> lm_fst_, config_ |-> config_,
   token_net_ |-> token_net_, tokens |-> tokens, state_of |-> state_of,
   token_set_ |-> token_set_, cost_offsets_ |-> cost_offsets_,
   num_toks_ |-> num_toks_, warned_ |-> warned_,
   decoding_finalized_ |-> decoding_finalized_, final_costs_ |-> final_costs_,
   final_relative_cost_ |-> final_relative_cost_,
   final_best_cost_ |-> final_best_cost_, nalloc |-> nalloc, log |-> log,
   failed |-> failed]

\* the decoder object at the start of a public call
Begin == [Self EXCEPT !.log = << >>]

\* no call in progress; the locals of a call in progress are the cutoff of
\* ProcessNonemitting, the frame t and the delta = dnum / dden of
\* PruneTokenNet, and changed and the two outputs of PruneForwardLinks
Idle ==
  [at |-> "idle", cutoff |-> 0, t |-> 0, dnum |-> 0, dden |-> 1,
   changed |-> FALSE, extra_costs_changed |-> FALSE, links_pruned |-> FALSE]

\* a public call runs to its end: queue_ is empty again and no call is in
\* progress
Whole == UNCHANGED << queue_, pc >>

\* the decoder object after a call
Install(d) ==
  /\ token_net_' = d.token_net_
  /\ tokens' = d.tokens
  /\ state_of' = d.state_of
  /\ token_set_' = d.token_set_
  /\ cost_offsets_' = d.cost_offsets_
  /\ num_toks_' = d.num_toks_
  /\ warned_' = d.warned_
  /\ decoding_finalized_' = d.decoding_finalized_
  /\ final_costs_' = d.final_costs_
  /\ final_relative_cost_' = d.final_relative_cost_
  /\ final_best_cost_' = d.final_best_cost_
  /\ nalloc' = d.nalloc
  /\ log' = d.log
  /\ failed' = d.failed
  /\ UNCHANGED env

\* a const reader leaves the object alone; a failed KALDI_ASSERT ends the process
Unchanged(outcome) ==
  /\ UNCHANGED << env, token_net_, tokens, state_of, token_set_, cost_offsets_,
                  num_toks_, warned_, decoding_finalized_, final_costs_,
                  final_relative_cost_, final_best_cost_, nalloc, log >>
  /\ failed' = IF outcome = "assert" THEN "assert" ELSE failed

Ret(op, ufp, ready, max, outcome, result, arcs, final_cost, final_costs, lattice) ==
  [op |-> op, use_final_probs |-> ufp, num_frames_ready |-> ready,
   max_num_frames |-> max, outcome |-> outcome,
   result |-> result, arcs |-> arcs, final_cost |-> final_cost,
   final_costs |-> final_costs, lattice |-> lattice]

Outcome(d) == IF d.failed = "" THEN "ok" ELSE d.failed

\* the state after the constructor: no frame, no token.  The constructor
\* leaves warned_ and decoding_finalized_ uninitialized: either value.
\* final_relative_cost_ and final_best_cost_ are uninitialized too; they hold
\* Uninit until PruneForwardLinksFinal writes them.
Constructed(setups) ==
  /\ \E s \in 1..Len(setups) :
       /\ la_fst_ = setups[s][1]
       /\ lm_fst_ = setups[s][2]
       /\ config_ = Configs[setups[s][3]]
       /\ ll = setups[s][4]
  /\ la_fst_ \in 1..Len(Graphs)
  /\ lm_fst_ \in Lms
  /\ ConfigCheck(config_)
  /\ ll \in Likelihoods
  /\ token_net_ = << >>
  /\ tokens = << >>
  /\ state_of = << >>
  /\ token_set_ = << >>
  /\ cost_offsets_ = << >>
  /\ num_toks_ = 0
  /\ warned_ \in BOOLEAN
  /\ decoding_finalized_ \in BOOLEAN
  /\ final_costs_ = << >>
  /\ final_relative_cost_ = Uninit
  /\ final_best_cost_ = Uninit
  /\ nalloc = 0
  /\ log = << >>
  /\ failed = ""
  /\ queue_ = << >>

Init ==
  /\ Constructed(Setups)
  /\ ret = Ret("DecCore", FALSE, 0, 0, "ok", FALSE, << >>, 0, << >>, NoLattice)
  /\ pc = Idle

\* ------------------------------------------------------------------- actions
\* A const reader changes nothing but ret, and every call sets ret anew: the
\* step a call takes after a reader is the step it takes from the state
\* before the reader.  Calls are therefore taken from the states a
\* state-changing call (or the constructor) left; the states reached are the
\* same.
Readers == {"BestPathEnd", "GetBestPath", "GetRawLattice", "GetRawLatticePruned"}
CanRead == failed = "" /\ ret.op \notin Readers
CanCall == CanRead

\* the step of a state-changing call that left the decoder d
Return(d, op, ready, max, result) ==
  /\ Install(d)
  /\ Whole
  /\ ret' = Ret(op, FALSE, ready, max, Outcome(d), result, << >>, 0, << >>, NoLattice)

\* the step of a const reader that put out g
Read(g, op, use_final_probs, result, arcs, final_cost, final_costs, lattice) ==
  /\ ret' = Ret(op, use_final_probs, 0, 0, g.outcome, result, arcs, final_cost,
                final_costs, lattice)
  /\ Unchanged(g.outcome)
  /\ Whole

DecodeStep(r, num_frames) == Return(r.d, "Decode", num_frames, 0, r.result)
BestPathEndStep(b, ufp) ==
  Read(b, "BestPathEnd", ufp, b.tok # NULL, << >>, b.final_cost, << >>, NoLattice)
GetBestPathStep(g, ufp) ==
  Read(g, "GetBestPath", ufp, g.result, g.arcs, g.final_cost, << >>, NoLattice)
GetRawLatticeStep(g, op, ufp) ==
  Read(g, op, ufp, g.result, << >>, 0, g.final_costs, g.lattice)

CallInitDecoding ==
  /\ CanCall
  /\ Return(InitDecoding(Begin), "InitDecoding", 0, 0, FALSE)

CallAdvanceDecoding ==
  /\ CanCall
  /\ \E num_frames_ready \in 0..MaxFrames, max_num_frames \in -1..2 :
       Return(AdvanceDecoding(Begin, ll, num_frames_ready, max_num_frames),
              "AdvanceDecoding", num_frames_ready, max_num_frames, FALSE)

CallFinalizeDecoding ==
  /\ CanCall
  /\ Return(FinalizeDecoding(Begin), "FinalizeDecoding", 0, 0, FALSE)

CallDecode ==
  /\ CanCall
  /\ \E num_frames \in 0..MaxFrames :
       DecodeStep(Decode(Begin, ll, num_frames), num_frames)

CallBestPathEnd ==
  /\ CanRead
  /\ \E use_final_probs \in BOOLEAN :
       BestPathEndStep(BestPathEnd(Self, use_final_probs), use_final_probs)

CallGetBestPath ==
  /\ CanRead
  /\ \E use_final_probs \in BOOLEAN :
       GetBestPathStep(GetBestPath(Self, use_final_probs), use_final_probs)

CallGetRawLattice ==
  /\ CanRead
  /\ \E use_final_probs \in BOOLEAN :
       GetRawLatticeStep(GetRawLattice(Self, use_final_probs),
                         "GetRawLattice", use_final_probs)

CallGetRawLatticePruned ==
  /\ CanRead
  /\ \E use_final_probs \in BOOLEAN :
       GetRawLatticeStep(GetRawLatticePruned(Self, use_final_probs, config_.lattice_beam),
                         "GetRawLatticePruned", use_final_probs)

Next ==
  \/ CallInitDecoding
  \/ CallAdvanceDecoding
  \/ CallFinalizeDecoding
  \/ CallDecode
  \/ CallBestPathEnd
  \/ CallGetBestPath
  \/ CallGetRawLattice
  \/ CallGetRawLatticePruned

Spec == Init /\ [][Next]_vars

\* ============================================= Decode(), one round at a time
\* Decode() on a decodable of ret.num_frames_ready frames, taken loop round by
\* loop round: pc.at names the statement the call stands at.  PruneTokenNet
\* is handed pc.dnum / pc.dden for delta: lattice_beam * prune_scale as
\* Decode() passes it, or 0, the least delta PruneForwardLinks takes.
At(a) == [pc EXCEPT !.at = a]

PruneDeltas(c) == { << c.lattice_beam * c.prune_num, c.prune_den >>, << 0, 1 >> }

\* the decoders of the main specification, and decoders on graphs with
\* epsilon cycles of more than one arc
StepSetups ==
  Setups \o << << 8, 0, 1, 1 >>, << 8, 0, 2, 2 >>, << 8, 0, 3, 3 >>,
               << 8, 3, 1, 1 >> >>

InitSteps ==
  /\ Constructed(StepSetups)
  /\ \E num_frames \in 0..MaxFrames :
       ret = Ret("Decode", FALSE, num_frames, 0, "ok", FALSE, << >>, 0, << >>,
                 NoLattice)
  /\ \E delta \in PruneDeltas(config_) :
       pc = [Idle EXCEPT !.at = "InitDecoding", !.dnum = delta[1], !.dden = delta[2]]

Running == failed = ""

\* ProcessNonemitting(cutoff) up to its loop, on the decoder d
EnterNonemitting(d, cutoff) ==
  IF d.failed # "" \/ d.token_net_ = << >>
  THEN Install(Fail(d, "assert")) /\ UNCHANGED << queue_, pc, ret >>
  ELSE /\ Install(ProcessNonemittingStart(d, cutoff).d)
       /\ queue_' = ProcessNonemittingStart(d, cutoff).queue
       /\ pc' = [pc EXCEPT !.at = "ProcessNonemitting", !.cutoff = cutoff]
       /\ UNCHANGED ret

\* InitDecoding() up to the loop of ProcessNonemitting(config_.beam)
StepInitDecoding ==
  /\ Running /\ pc.at = "InitDecoding"
  /\ EnterNonemitting(InitDecodingStart(Begin), config_.beam)

\* one round of while (!queue_.empty())
StepNonemittingRound ==
  /\ Running /\ pc.at = "ProcessNonemitting" /\ queue_ # << >>
  /\ \E r \in { NonemittingRound([d |-> Self, queue |-> queue_], pc.cutoff) } :
       Install(r.d) /\ queue_' = r.queue
  /\ UNCHANGED << pc, ret >>

\* the loop ends on the empty queue_; back in Decode(), at the loop test
StepNonemittingEnd ==
  /\ Running /\ pc.at = "ProcessNonemitting" /\ queue_ = << >>
  /\ pc' = At("Decode")
  /\ Install(Self) /\ UNCHANGED << queue_, ret >>

\* the loop test of Decode() holds and a prune is due: PruneTokenNet(delta)
\* up to its loop over the frames
StepPruneTokenNet ==
  /\ Running /\ pc.at = "Decode"
  /\ NumFramesDecoded(Self) < ret.num_frames_ready
  /\ NumFramesDecoded(Self) % config_.prune_interval = 0
  /\ Install(LogEvent(Self, "PruneTokenNet", NumFramesDecoded(Self), 0))
  /\ pc' = [pc EXCEPT !.at = "PruneTokenNet", !.t = NumFramesDecoded(Self) - 1]
  /\ UNCHANGED << queue_, ret >>

\* the body of the loop of PruneTokenNet for frame pc.t: PruneForwardLinks
\* up to its loop if the frame asks for it, else the rest of the body
StepPruneFrame ==
  /\ Running /\ pc.at = "PruneTokenNet" /\ pc.t >= 0
  /\ IF token_net_[pc.t + 1].must_prune_forward_links
     THEN /\ Install(PruneForwardLinksStart(Self, pc.t))
          /\ pc' = [pc EXCEPT !.at = "PruneForwardLinks", !.changed = TRUE,
                              !.extra_costs_changed = FALSE,
                              !.links_pruned = FALSE]
     ELSE /\ Install(PruneTokenNetTokens(Self, pc.t, NumFramesDecoded(Self)))
          /\ pc' = [pc EXCEPT !.t = @ - 1]
  /\ UNCHANGED << queue_, ret >>

\* one round of while (changed): a pass over the tokens of frame pc.t
StepPruneForwardLinksPass ==
  /\ Running /\ pc.at = "PruneForwardLinks" /\ pc.changed
  /\ \E r \in { PruneForwardLinksPass(Self, pc.t, 1, pc.dnum, pc.dden, FALSE, FALSE) } :
       /\ Install(r.d)
       /\ pc' = [pc EXCEPT !.changed = r.changed,
                           !.extra_costs_changed = @ \/ r.changed,
                           !.links_pruned = @ \/ r.links_pruned]
  /\ UNCHANGED << queue_, ret >>

\* the loop ends on changed == false; back in PruneTokenNet, the rest of the
\* body for frame pc.t
StepPruneForwardLinksEnd ==
  /\ Running /\ pc.at = "PruneForwardLinks" /\ ~pc.changed
  /\ Install(PruneTokenNetTokens(
               PruneTokenNetFlags([d |-> Self,
                                   extra_costs_changed |-> pc.extra_costs_changed,
                                   links_pruned |-> pc.links_pruned], pc.t),
               pc.t, NumFramesDecoded(Self)))
  /\ pc' = [pc EXCEPT !.at = "PruneTokenNet", !.t = @ - 1]
  /\ UNCHANGED << queue_, ret >>

\* ProcessEmitting, then ProcessNonemitting(cost_cutoff) up to its loop: when
\* no prune is due, or PruneTokenNet has done frame 0
StepProcessEmitting ==
  /\ Running
  /\ \/ /\ pc.at = "Decode"
        /\ NumFramesDecoded(Self) < ret.num_frames_ready
        /\ NumFramesDecoded(Self) % config_.prune_interval # 0
     \/ pc.at = "PruneTokenNet" /\ pc.t < 0
  /\ EnterNonemitting(ProcessEmitting(Self, ll).d, ProcessEmitting(Self, ll).next_cutoff)

\* the loop test of Decode() fails: FinalizeDecoding() and return
StepFinalizeDecoding ==
  /\ Running /\ pc.at = "Decode"
  /\ IsLastFrame(ret.num_frames_ready, NumFramesDecoded(Self) - 1)
  /\ Install(FinalizeDecoding(Self))
  /\ pc' = At("idle")
  /\ ret' = [ret EXCEPT !.outcome = Outcome(FinalizeDecoding(Self)),
                         !.result = DecodeReturn(FinalizeDecoding(Self)).result]
  /\ UNCHANGED queue_

NextSteps ==
  \/ StepInitDecoding
  \/ StepNonemittingRound
  \/ StepNonemittingEnd
  \/ StepPruneTokenNet
  \/ StepPruneFrame
  \/ StepPruneForwardLinksPass
  \/ StepPruneForwardLinksEnd
  \/ StepProcessEmitting
  \/ StepFinalizeDecoding

\* a loop that has a round to run, and the step that is a round of it: from
\* such a state NextSteps allows StepNonemittingRound, or
\* StepPruneForwardLinksPass, and no other action
NonemittingPending == Running /\ pc.at = "ProcessNonemitting" /\ queue_ # << >>
PruningPending == Running /\ pc.at = "PruneForwardLinks" /\ pc.changed

\* a loop in progress goes on, the thread takes its next round: weak
\* fairness of the two round actions, WF_vars(StepNonemittingRound) and
\* WF_vars(StepPruneForwardLinksPass), written out as
\* []<>(~ENABLED <<A>>_vars) \/ []<><<A>>_vars with the enabling condition
\* and the step of each given by the loop's own test
LoopsGoOn ==
  /\ []<>(~NonemittingPending) \/ []<><<NonemittingPending>>_vars
  /\ []<>(~PruningPending) \/ []<><<PruningPending>>_vars

SpecSteps == InitSteps /\ [][NextSteps]_vars /\ LoopsGoOn

\* the same steps with no promise that a loop goes on
SpecStepsUnfair == InitSteps /\ [][NextSteps]_vars

\* ================================================================ properties
\* the tokens on the list of frame slot f (frame f - 1)
FrameToks(f) == { token_net_[f].toks[i] : i \in 1..Len(token_net_[f].toks) }
\* the tokens reached by following next from the heads of all frame slots
RECURSIVE ListedCount(_)
ListedCount(f) == IF f = 0 THEN 0 ELSE Len(token_net_[f].toks) + ListedCount(f - 1)
\* some token was deleted and some token is left
SomePruned == num_toks_ > 0 /\ Cardinality(DOMAIN tokens) < nalloc

\* C1: after every public operation that returns, every ForwardLink of a
\* token on frame t points to a token still in the token network: on frame
\* t + 1 if its ilabel is non-zero, on frame t if its ilabel is zero.
LinksPointIntoNetwork ==
  failed = "" =>
    \A f \in 1..Len(token_net_) : \A tok \in FrameToks(f) :
      /\ tok \in DOMAIN tokens
      /\ \A j \in 1..Len(tokens[tok].links) :
           /\ tokens[tok].links[j].dst_tok \in DOMAIN tokens
           /\ IF tokens[tok].links[j].ilabel # 0
              THEN /\ f + 1 <= Len(token_net_)
                   /\ tokens[tok].links[j].dst_tok \in FrameToks(f + 1)
              ELSE tokens[tok].links[j].dst_tok \in FrameToks(f)

\* a finalized network of MaxFrames frames from which tokens were deleted and
\* which still holds an epsilon link and an emitting link
LinksPointIntoNetworkWitness ==
  /\ failed = "" /\ ret.op = "FinalizeDecoding" /\ SomePruned
  /\ Len(token_net_) = MaxFrames + 1
  /\ \E tok \in DOMAIN tokens : \E j \in 1..Len(tokens[tok].links) :
       tokens[tok].links[j].ilabel = 0
  /\ \E tok \in DOMAIN tokens : \E j \in 1..Len(tokens[tok].links) :
       tokens[tok].links[j].ilabel # 0

\* the walk of GetBestPath from the iterator b of BestPathEnd
TraceFrom(b) ==
  IF b.outcome # "ok" \/ b.tok = NULL THEN "none"
  ELSE TraceLoop(Self, b.tok, b.frame, << >>, nalloc + 1).outcome

\* C2: after any sequence of InitDecoding, AdvanceDecoding and
\* FinalizeDecoding calls, the traceback from the iterator BestPathEnd
\* returns reaches the start token: every token on the way is live and its
\* backpointer token owns a link to it ("link not found" is never reached).
TraceBackFindsLinks ==
  failed = "" =>
    \A use_final_probs \in BOOLEAN :
      TraceFrom(BestPathEnd(Self, use_final_probs)) \in {"none", "ok"}

\* a best path of MaxFrames frames was traced through a network from which
\* tokens were deleted
TraceBackFindsLinksWitness ==
  /\ failed = "" /\ ret.op = "GetBestPath" /\ ret.outcome = "ok" /\ ret.result
  /\ Len(ret.arcs) > MaxFrames
  /\ SomePruned

\* C3: after every public operation that returns, num_toks_ is the number of
\* tokens on the lists of all frame slots.
NumToksCountsListed ==
  failed = "" => num_toks_ = ListedCount(Len(token_net_))

\* AdvanceDecoding returned after PruneTokenNet deleted tokens
NumToksCountsListedWitness ==
  /\ failed = "" /\ ret.op = "AdvanceDecoding" /\ ~decoding_finalized_
  /\ SomePruned

\* the number of ProcessEmitting calls in the call log lg
RECURSIVE EmittingCalls(_)
EmittingCalls(lg) ==
  IF lg = << >> THEN 0
  ELSE (IF Head(lg).op = "ProcessEmitting" THEN 1 ELSE 0) + EmittingCalls(Tail(lg))

\* C4: after every public operation that returns (after an InitDecoding),
\* the number of cost offsets is NumFramesDecoded(), the number of frame slots
\* minus one; every ProcessEmitting adds exactly one slot and one offset.
OffsetsMatchFrames ==
  [][ (failed' = "" /\ token_net_' # << >>) =>
        /\ Len(cost_offsets_') = NumFramesDecoded([token_net_ |-> token_net_'])
        /\ NumFramesDecoded([token_net_ |-> token_net_']) = Len(token_net_') - 1
        /\ ret'.op = "AdvanceDecoding" =>
             /\ Len(token_net_') = Len(token_net_) + EmittingCalls(log')
             /\ Len(cost_offsets_') = Len(cost_offsets_) + EmittingCalls(log')
        /\ ret'.op = "Decode" =>
             /\ Len(token_net_') = 1 + EmittingCalls(log')
             /\ Len(cost_offsets_') = EmittingCalls(log') ]_vars

\* one AdvanceDecoding processed two frames and MaxFrames frames are decoded
OffsetsMatchFramesWitness ==
  /\ failed = "" /\ ret.op = "AdvanceDecoding"
  /\ EmittingCalls(log) = 2
  /\ Len(cost_offsets_) = MaxFrames

\* the decoder fields a call that aborts on entry leaves as they were
decoder == << token_net_, tokens, token_set_, cost_offsets_, num_toks_,
              decoding_finalized_, final_costs_, final_relative_cost_ >>

\* C5: a FinalizeDecoding called right after a FinalizeDecoding that returned
\* completes without error and leaves the token network, the final costs,
\* final_relative_cost_ and decoding_finalized_ as they were.
FinalizeTwiceIsOnce ==
  [][ (ret.op = "FinalizeDecoding" /\ failed = "" /\ ret'.op = "FinalizeDecoding") =>
        /\ failed' = ""
        /\ UNCHANGED << token_net_, tokens, final_costs_, final_relative_cost_,
                        decoding_finalized_ >> ]_vars

\* the word labels of the graph and the LM states they lead to
Words ==
  UNION { { GraphArcs(la_fst_, s)[j].olabel : j \in DOMAIN GraphArcs(la_fst_, s) } :
          s \in DOMAIN Graphs[la_fst_].arcs } \ {kWfstEpsilon}
LmHasNoArc ==
  /\ lm_fst_ # NULL
  /\ \E s \in Words \cup {LmStart(lm_fst_)}, o \in Words : ~LmGetArc(lm_fst_, s, o).found

CachedFinal(tok) ==
  IF DOMAIN final_costs_ = {} THEN 0
  ELSE IF tok \in DOMAIN final_costs_ THEN final_costs_[tok] ELSE Inf
CachedCost(tok) == Plus(tokens[tok].total_cost, CachedFinal(tok))

\* C7: once FinalizeDecoding has run, BestPathEnd, GetBestPath, GetRawLattice
\* and GetRawLatticePruned end in a fatal error when called with
\* use_final_probs == false; called with use_final_probs == true they work
\* with the cached final_costs_ and do not call ComputeFinalCosts (which
\* would abort, and would find the active index empty).
ReadersAfterFinalize ==
  (decoding_finalized_ /\ token_net_ # << >> /\ ret.op \in Readers) =>
    IF ~ret.use_final_probs THEN ret.outcome = "error" /\ failed = ""
    ELSE IF ~(NumFramesDecoded(Self) > 0) THEN ret.outcome = "assert"
    ELSE /\ ret.outcome = "ok" /\ failed = ""
         /\ ret.op \in {"GetRawLattice", "GetRawLatticePruned"} =>
              ret.final_costs = final_costs_
         /\ ret.op \in {"BestPathEnd", "GetBestPath"} =>
              IF ret.result
              THEN \E tok \in FrameToks(Len(token_net_)) :
                     /\ CachedCost(tok) < Inf
                     /\ \A other \in FrameToks(Len(token_net_)) :
                          CachedCost(tok) <= CachedCost(other)
                     /\ ret.final_cost = CachedFinal(tok)
              ELSE \A tok \in FrameToks(Len(token_net_)) : CachedCost(tok) = Inf

\* GetBestPath(use_final_probs = true) on a finalized decoder returned a path
\* that ends with a non-zero cached final cost
ReadersAfterFinalizeWitness ==
  /\ ret.op = "GetBestPath" /\ ret.use_final_probs /\ ret.outcome = "ok"
  /\ decoding_finalized_ /\ token_set_ = << >>
  /\ ret.result /\ ret.final_cost > 0

\* C8: AdvanceDecoding called with d frames decoded and r frames ready
\* returns with NumFramesDecoded() = r when max_num_frames < 0 and
\* = min(r, d + max_num_frames) when max_num_frames >= 0; no frame at or
\* beyond r is processed.
AdvanceTargetFrames ==
  [][ (ret'.op = "AdvanceDecoding" /\ failed' = "") =>
        /\ Len(token_net_') - 1 =
             IF ret'.max_num_frames < 0 THEN ret'.num_frames_ready
             ELSE IF ret'.num_frames_ready < NumFramesDecoded(Self) + ret'.max_num_frames
                  THEN ret'.num_frames_ready
                  ELSE NumFramesDecoded(Self) + ret'.max_num_frames
        /\ \A i \in 1..Len(log') :
             log'[i].op = "ProcessEmitting" => log'[i].frame < ret'.num_frames_ready ]_vars

\* with one frame decoded and MaxFrames ready, max_num_frames = 1 stopped the
\* call after one more frame
AdvanceTargetFramesWitness ==
  /\ ret.op = "AdvanceDecoding" /\ failed = ""
  /\ ret.max_num_frames = 1 /\ ret.num_frames_ready = MaxFrames
  /\ NumFramesDecoded(Self) = 2 /\ EmittingCalls(log) = 1

\* the calls PruneTokenNet and FinalizeDecoding make
Nested == {"PruneForwardLinks", "PruneTokenList"}
\* the last call at or before position i of the call log that is not nested,
\* 0 if there is none
RECURSIVE Opener(_)
Opener(i) == IF i = 0 THEN 0 ELSE IF log[i].op \notin Nested THEN i ELSE Opener(i - 1)
\* the first call at or after position i that is not nested, 0 if none
RECURSIVE Closer(_)
Closer(i) ==
  IF i > Len(log) THEN 0 ELSE IF log[i].op \notin Nested THEN i ELSE Closer(i + 1)

\* C9: in every run of Decode or AdvanceDecoding each frame f is processed as
\* PruneTokenNet iff f % prune_interval = 0, then ProcessEmitting for frame f,
\* then ProcessNonemitting with exactly the cutoff ProcessEmitting returned;
\* there is no pruning anywhere else but once inside FinalizeDecoding.
FrameOrder ==
  (ret.op \in {"AdvanceDecoding", "Decode"} /\ failed = "") =>
    \A i \in 1..Len(log) :
      /\ log[i].op = "ProcessEmitting" =>
           /\ i < Len(log)
           /\ log[i + 1] = [op |-> "ProcessNonemitting", frame |-> log[i].frame + 1,
                            val |-> log[i].val]
           /\ IF log[i].frame % config_.prune_interval = 0
              THEN /\ Opener(i - 1) > 0
                   /\ log[Opener(i - 1)].op = "PruneTokenNet"
                   /\ log[Opener(i - 1)].frame = log[i].frame
              ELSE /\ Opener(i - 1) = i - 1
                   /\ i > 1 => /\ log[i - 1].op = "ProcessNonemitting"
                               /\ log[i - 1].frame = log[i].frame
      /\ log[i].op = "ProcessNonemitting" =>
           IF i = 1
           THEN ret.op = "Decode" /\ log[i].frame = 0 /\ log[i].val = config_.beam
           ELSE log[i - 1].op = "ProcessEmitting"
      /\ log[i].op = "PruneTokenNet" =>
           /\ log[i].frame % config_.prune_interval = 0
           /\ i > 1 => /\ log[i - 1].op = "ProcessNonemitting"
                       /\ log[i - 1].frame = log[i].frame
           /\ Closer(i + 1) > 0
           /\ log[Closer(i + 1)].op = "ProcessEmitting"
           /\ log[Closer(i + 1)].frame = log[i].frame
      /\ log[i].op \in Nested =>
           /\ Opener(i) > 0
           /\ log[Opener(i)].op \in {"PruneTokenNet", "PruneForwardLinksFinal"}
      /\ log[i].op = "PruneForwardLinksFinal" =>
           /\ ret.op = "Decode"
           /\ log[i - 1].op = "ProcessNonemitting"
           /\ Closer(i + 1) = 0

\* Decode ran MaxFrames frames with prune_interval 2: PruneTokenNet before
\* frames 0 and 2, none before frame 1
FrameOrderWitness ==
  /\ ret.op = "Decode" /\ failed = "" /\ config_.prune_interval = 2
  /\ EmittingCalls(log) = MaxFrames
  /\ \E i \in 1..Len(log) : log[i].op = "PruneTokenList"

\* C10: Decode() returns true exactly when a traceback exists: after Decode
\* returned, GetBestPath(use_final_probs = true) succeeds and returns what
\* Decode returned, whatever the input, zero frames included.
DecodeTrueIffBestPath ==
  (ret.op = "Decode" /\ failed = "") =>
    /\ GetBestPath(Self, TRUE).outcome = "ok"
    /\ GetBestPath(Self, TRUE).result = ret.result

\* the final cost of the search state token tok stands for: the graph's final
\* cost plus the LM's
TokFinal(tok) ==
  Plus(GraphFinal(la_fst_, ExtractLaState(state_of[tok])),
       IF lm_fst_ = NULL THEN 0 ELSE LmFinal(lm_fst_, ExtractLmState(state_of[tok])))
\* the tokens of the last frame
LastToks == FrameToks(Len(token_net_))

\* C11: after every call that returned with a token network, ReachedFinal()
\* is true iff FinalRelativeCost() is finite, and that iff some token of the
\* last frame is in a search state with a finite final cost (so with
\* survivors none of which is final the cost is +infinity and ReachedFinal()
\* false); FinalizeDecoding leaves FinalRelativeCost() as it was.
ReachedFinalIffFinite ==
  /\ []((failed = "" /\ token_net_ # << >>) =>
         /\ ReachedFinal(Self) <=> FinalRelativeCost(Self) < Inf
         /\ FinalRelativeCost(Self) < Inf <=> \E tok \in LastToks : TokFinal(tok) < Inf)
  /\ [][ (ret'.op = "FinalizeDecoding" /\ failed' = "") =>
           (FinalRelativeCost(Self))' = FinalRelativeCost(Self) ]_vars

\* FinalizeDecoding ran after at least one frame and a final state was reached
ReachedFinalIffFiniteWitness ==
  /\ ret.op = "FinalizeDecoding" /\ failed = "" /\ NumFramesDecoded(Self) > 0
  /\ ReachedFinal(Self) /\ SomePruned

\* C12 (as amended): FinalRelativeCost() is +infinity iff no token of the
\* last frame is in a search state with a finite final cost: when no token
\* survived, and also when tokens survived but none of them is final.
RelativeCostInfinite ==
  (failed = "" /\ token_net_ # << >>) =>
    /\ LastToks = {} => FinalRelativeCost(Self) = Inf
    /\ FinalRelativeCost(Self) = Inf <=> \A tok \in LastToks : TokFinal(tok) = Inf

\* C12 (as stated): FinalRelativeCost() is +infinity iff no tokens survived
\* on the last frame.
RelativeCostInfiniteIffNoTokens ==
  (failed = "" /\ token_net_ # << >>) =>
    (FinalRelativeCost(Self) = Inf <=> LastToks = {})

\* after at least one frame tokens survive, none of them final, and
\* FinalRelativeCost() is +infinity
RelativeCostInfiniteWitness ==
  /\ failed = "" /\ NumFramesDecoded(Self) > 0 /\ ret.op = "AdvanceDecoding"
  /\ LastToks # {} /\ FinalRelativeCost(Self) = Inf

\* the tokens of the last frame with the lowest total_cost
BestToks ==
  { tok \in LastToks : \A other \in LastToks :
      tokens[tok].total_cost <= tokens[other].total_cost }

\* C13 (as amended): whenever tokens survive on the last frame,
\* FinalRelativeCost() is non-negative (the final costs of the graph being
\* non-negative); before FinalizeDecoding, when the last-frame token with the
\* lowest total_cost is in a state with a final weight, FinalRelativeCost()
\* is at most that state's final cost, so 0 when that final cost is 0.
RelativeCostOfBest ==
  (failed = "" /\ token_net_ # << >> /\ LastToks # {}) =>
    /\ FinalRelativeCost(Self) >= 0
    /\ ~decoding_finalized_ =>
         \A tok \in BestToks :
           TokFinal(tok) < Inf => FinalRelativeCost(Self) <= TokFinal(tok)

\* C13 (as stated): FinalRelativeCost() is 0 whenever the last-frame token
\* with the lowest total_cost is in a state that has a final weight, and
\* non-negative in every other case where tokens survive.
RelativeCostZeroAtBest ==
  (failed = "" /\ token_net_ # << >> /\ LastToks # {}) =>
    /\ FinalRelativeCost(Self) >= 0
    /\ \A tok \in BestToks : TokFinal(tok) < Inf => FinalRelativeCost(Self) = 0

\* before FinalizeDecoding the best token of the last frame is final with a
\* non-zero final cost, and FinalRelativeCost() is positive
RelativeCostOfBestWitness ==
  /\ failed = "" /\ token_net_ # << >> /\ ~decoding_finalized_
  /\ NumFramesDecoded(Self) > 0
  /\ \E tok \in BestToks : TokFinal(tok) > 0 /\ TokFinal(tok) < Inf
  /\ FinalRelativeCost(Self) > 0

\* C14: search collapse is not fatal.  From a state whose last frame has no
\* token, AdvanceDecoding and FinalizeDecoding (their preconditions met) and
\* InitDecoding return without error, every frame AdvanceDecoding adds is
\* empty as well and the last frame is still empty after FinalizeDecoding,
\* and GetBestPath, GetRawLattice and GetRawLatticePruned return false.
CollapseNotFatal ==
  [][ (failed = "" /\ token_net_ # << >> /\ LastToks = {}) =>
        /\ (ret'.op = "AdvanceDecoding" /\ ~decoding_finalized_
              /\ ret'.num_frames_ready >= NumFramesDecoded(Self)) =>
             /\ failed' = ""
             /\ \A f \in Len(token_net_)..Len(token_net_') : token_net_'[f].toks = << >>
        /\ (ret'.op = "FinalizeDecoding" /\ ~decoding_finalized_) =>
             /\ failed' = ""
             /\ token_net_'[Len(token_net_')].toks = << >>
        /\ ret'.op = "InitDecoding" => failed' = ""
        /\ (ret'.op \in {"GetBestPath", "GetRawLattice", "GetRawLatticePruned"}
              /\ ~(decoding_finalized_ /\ ~ret'.use_final_probs)) =>
             ret'.outcome = "ok" /\ ~ret'.result /\ failed' = "" ]_vars

\* GetRawLattice returned false before FinalizeDecoding: the last frames are
\* empty, frame 0 still holds tokens
CollapseNotFatalWitness ==
  /\ ret.op = "GetRawLattice" /\ ret.outcome = "ok" /\ ~ret.result
  /\ ~decoding_finalized_ /\ NumFramesDecoded(Self) = MaxFrames
  /\ LastToks = {} /\ FrameToks(1) # {}

\* the token BestPathEnd(use_final_probs = true) returns, NULL for none
EndTok == BestPathEnd(Self, TRUE).tok
\* total_cost + final cost of a token of the last frame
CostWithFinal(tok) == Plus(tokens[tok].total_cost, TokFinal(tok))

\* C15 (as amended): BestPathEnd(use_final_probs = true), when at least one
\* last-frame token is in a final state, takes the final cost of every
\* non-final token as +infinity: the token it returns is final and minimises
\* total_cost + final_cost over the last frame.  When no last-frame token is
\* final, it takes every final cost as 0 and returns a token of the lowest
\* total_cost; it returns no token only when the last frame is empty.
BestPathEndUsesFinals ==
  (failed = "" /\ token_net_ # << >> /\ NumFramesDecoded(Self) > 0) =>
    IF \E tok \in LastToks : TokFinal(tok) < Inf
    THEN /\ EndTok \in LastToks
         /\ TokFinal(EndTok) < Inf
         /\ \A other \in LastToks : CostWithFinal(EndTok) <= CostWithFinal(other)
    ELSE IF LastToks = {} THEN EndTok = NULL ELSE EndTok \in BestToks

\* C15 (as stated): the token BestPathEnd(use_final_probs = true) returns is
\* final and minimises total_cost + final_cost over the last frame, and no
\* token is returned when none is final.
BestPathEndOnlyFinals ==
  (failed = "" /\ token_net_ # << >> /\ NumFramesDecoded(Self) > 0) =>
    IF \E tok \in LastToks : TokFinal(tok) < Inf
    THEN /\ EndTok \in LastToks
         /\ TokFinal(EndTok) < Inf
         /\ \A other \in LastToks : CostWithFinal(EndTok) <= CostWithFinal(other)
    ELSE EndTok = NULL

\* BestPathEnd(true) left a cheaper non-final token aside for a final one
BestPathEndUsesFinalsWitness ==
  /\ ret.op = "BestPathEnd" /\ ret.use_final_probs /\ ret.outcome = "ok"
  /\ ret.result /\ EndTok \in LastToks /\ TokFinal(EndTok) < Inf
  /\ \E other \in LastToks :
       /\ TokFinal(other) = Inf
       /\ tokens[other].total_cost < tokens[EndTok].total_cost

\* no token of the last frame is in a final state
NoneFinal == \A tok \in LastToks : TokFinal(tok) = Inf
\* the cost FinalizeDecoding and the readers rank a last-frame token by:
\* total_cost alone when no token is final
RankCost(tok) == IF NoneFinal THEN tokens[tok].total_cost ELSE CostWithFinal(tok)

\* C16: with use_final_probs == true the final weights count only if some
\* last-frame token is final.  If none is, BestPathEnd and GetBestPath return
\* a token with final cost 0, and GetRawLattice makes every last-frame token
\* final with weight One; if some is, the final states of the lattice are the
\* final tokens, with their final costs.  FinalizeDecoding prunes the last
\* frame by the same rule: it keeps every token whose cost (with final cost
\* if some token is final, without if none is) is within lattice_beam of the
\* best, and caches an empty final-cost map exactly when none is final.
FinalsOnlyIfSomeFinal ==
  /\ []((failed = "" /\ ret.use_final_probs /\ ret.outcome = "ok" /\ LastToks # {}) =>
         /\ ret.op \in {"BestPathEnd", "GetBestPath"} =>
              /\ ret.result
              /\ IF NoneFinal THEN ret.final_cost = 0
                 ELSE \E tok \in LastToks :
                        TokFinal(tok) < Inf /\ ret.final_cost = TokFinal(tok)
         /\ ret.op = "GetRawLattice" =>
              /\ ret.result <=> \A f \in 1..Len(token_net_) : FrameToks(f) # {}
              /\ ret.result =>
                   ret.lattice.finals =
                     IF NoneFinal THEN [tok \in LastToks |-> 0]
                     ELSE [tok \in { t \in LastToks : TokFinal(t) < Inf } |-> TokFinal(tok)])
  /\ [][ (ret'.op = "FinalizeDecoding" /\ failed' = "") =>
           /\ (DOMAIN final_costs_' = {}) <=> NoneFinal
           /\ \A tok \in LastToks :
                (\A other \in LastToks :
                   RankCost(tok) <= Plus(RankCost(other), config_.lattice_beam))
                  => tok \in DOMAIN tokens' ]_vars

\* GetRawLattice(true) wrote a lattice after FinalizeDecoding when no token
\* of the last frame was final: every last-frame token is a final state
FinalsOnlyIfSomeFinalWitness ==
  /\ ret.op = "GetRawLattice" /\ ret.use_final_probs /\ ret.outcome = "ok"
  /\ ret.result /\ decoding_finalized_ /\ NoneFinal /\ LastToks # {}
  /\ DOMAIN ret.lattice.finals = LastToks

\* the number of arcs of a path with a non-zero ilabel
RECURSIVE EmittingArcCount(_)
EmittingArcCount(arcs) ==
  IF arcs = << >> THEN 0
  ELSE (IF Head(arcs).ilabel # 0 THEN 1 ELSE 0) + EmittingArcCount(Tail(arcs))

\* C17: BestPathEnd returns the frame index NumFramesDecoded() - 1; each
\* TraceBackBestPath call steps it back by exactly one on an arc with a
\* non-zero ilabel and leaves it alone on an epsilon arc; the traceback ends
\* at the start token with frame index -1, the traced path holding
\* NumFramesDecoded() emitting arcs.
TraceBackFrames ==
  (failed = "" /\ token_net_ # << >> /\ NumFramesDecoded(Self) > 0) =>
    \A use_final_probs \in BOOLEAN :
      /\ BestPathEnd(Self, use_final_probs).outcome = "ok" =>
           BestPathEnd(Self, use_final_probs).frame = NumFramesDecoded(Self) - 1
      /\ \A tok \in DOMAIN tokens : \A frame \in 0..(NumFramesDecoded(Self) - 1) :
           TraceBackBestPath(Self, tok, frame).outcome = "ok" =>
             TraceBackBestPath(Self, tok, frame).frame =
               IF TraceBackBestPath(Self, tok, frame).arc.ilabel # 0
               THEN frame - 1 ELSE frame
      /\ GetBestPath(Self, use_final_probs).result =>
           /\ GetBestPath(Self, use_final_probs).frame = 0 - 1
           /\ EmittingArcCount(GetBestPath(Self, use_final_probs).arcs)
                = NumFramesDecoded(Self)

\* GetBestPath traced two frames back along a path with an epsilon link on
\* it (the first arc of the path is the one made at the start token)
TraceBackFramesWitness ==
  /\ ret.op = "GetBestPath" /\ ret.outcome = "ok" /\ ret.result
  /\ NumFramesDecoded(Self) = 2
  /\ EmittingArcCount(ret.arcs) = 2
  /\ \E i \in 2..Len(ret.arcs) : ret.arcs[i].ilabel = 0

\* the frame whose list holds token tok
FrameOf(tok) == CHOOSE f \in 0..NumFramesDecoded(Self) : tok \in FrameToks(f + 1)

RECURSIVE ArcsCost(_)
ArcsCost(arcs) ==
  IF arcs = << >> THEN 0
  ELSE Head(arcs).graph_cost + Head(arcs).acoustic_cost + ArcsCost(Tail(arcs))
PathCost(g) == ArcsCost(g.arcs) + g.final_cost

\* g is what GetBestPath put out and l what GetRawLattice put out
BothRead(g, l) == g.outcome = "ok" /\ g.result /\ l.outcome = "ok" /\ l.result
SameCost(g, l) == BothRead(g, l) => PathCost(g) = ShortestPathCost(l.lattice)

\* C19: for one decoder state and one use_final_probs, before and after
\* FinalizeDecoding, whenever GetBestPath and GetRawLattice both return true
\* the path of GetBestPath costs what the shortest path through the lattice
\* of GetRawLattice costs.
BestPathIsShortest ==
  (failed = "" /\ ret.op \in {"AdvanceDecoding", "FinalizeDecoding", "Decode"}
     /\ token_net_ # << >>) =>
    \A ufp \in BOOLEAN : SameCost(GetBestPath(Self, ufp), GetRawLattice(Self, ufp))

\* some final state of the lattice l is reached at a higher cost than the
\* path g has
OtherFinal(g, l, dist) ==
  /\ Cardinality(DOMAIN l.lattice.finals) > 1
  /\ \E tok \in DOMAIN l.lattice.finals :
       Plus(dist[tok], l.lattice.finals[tok]) > PathCost(g)
WorseFinal(g, l) == BothRead(g, l) /\ OtherFinal(g, l, ShortestDistance(l.lattice))

\* both readers return true on a finalized decoder whose lattice has more
\* than one final state and a path that is not the best one
BestPathIsShortestWitness ==
  /\ failed = "" /\ ret.op = "FinalizeDecoding" /\ decoding_finalized_
  /\ token_net_ # << >>
  /\ WorseFinal(GetBestPath(Self, TRUE), GetRawLattice(Self, TRUE))

\* the prune intervals compared
PruneIntervals == {1, 2, 3, 5}

\* the token network of a decoder value: the token list of every frame, and
\* the tokens on them with their costs, backpointers and forward links
TokenNetwork(d) ==
  [lists |-> [f \in DOMAIN d.token_net_ |-> d.token_net_[f].toks],
   toks |-> [tok \in UNION { ToksOf(d, f) : f \in DOMAIN d.token_net_ } |-> d.tokens[tok]]]

\* Decode() of the same graph, likelihoods and options but prune interval k,
\* over the num_frames frames the last Decode() consumed
DecodeWith(k) ==
  Decode([Begin EXCEPT !.config_.prune_interval = k], ll, ret.num_frames_ready).d

\* C20: the token network Decode() leaves, FinalizeDecoding included, is the
\* same for every prune_interval, and so is the raw lattice read from it.
PruneIntervalIrrelevant ==
  (failed = "" /\ ret.op = "Decode") =>
    \A k \in PruneIntervals :
      /\ DecodeWith(k).failed = ""
      /\ TokenNetwork(DecodeWith(k)) = TokenNetwork(Self)
      /\ GetRawLattice(DecodeWith(k), TRUE).lattice = GetRawLattice(Self, TRUE).lattice

\* the decoder Decode() hands to FinalizeDecoding when the prune interval is k
BeforeFinalize(k) ==
  DecodeLoop(InitDecoding([Begin EXCEPT !.config_.prune_interval = k]), ll,
             ret.num_frames_ready)

\* Decode() returned true for MaxFrames frames, and the intermediate passes of
\* prune interval 1 took tokens and links away that were still there, right
\* before FinalizeDecoding, with prune interval 5
PruneIntervalIrrelevantWitness ==
  /\ failed = "" /\ ret.op = "Decode" /\ ret.result
  /\ ret.num_frames_ready = MaxFrames
  /\ \E tok \in DOMAIN BeforeFinalize(5).tokens : tok \notin DOMAIN BeforeFinalize(1).tokens
  /\ \E tok \in DOMAIN BeforeFinalize(1).tokens :
       Len(BeforeFinalize(1).tokens[tok].links) < Len(BeforeFinalize(5).tokens[tok].links)

\* the decoder stands between two frames: the active index is the snapshot
\* the next ProcessEmitting takes
BetweenFrames ==
  /\ failed = "" /\ ret.op \in {"InitDecoding", "AdvanceDecoding"}
  /\ token_net_ # << >> /\ ~decoding_finalized_

\* the snapshot entries ProcessEmitting's main scan expands under cur_cutoff
Expanded(cur_cutoff) ==
  { i \in 1..Len(token_set_) : tokens[token_set_[i].val].total_cost <= cur_cutoff }

\* C21: whenever the snapshot holds more than max_active entries, at most
\* max_active of them have total_cost <= the cutoff GetCutoff returns, so
\* ProcessEmitting's main scan expands at most max_active tokens.
MaxActiveCaps ==
  (BetweenFrames /\ Len(token_set_) > config_.max_active) =>
    Cardinality(Expanded(GetCutoff(Self, token_set_).cutoff)) <= config_.max_active

\* the costs of the snapshot, its least cost, and the cost at position
\* max_active of the ordered costs (tmp_array_[max_active])
SnapshotCosts == [i \in 1..Len(token_set_) |-> tokens[token_set_[i].val].total_cost]
best == SetMin({ SnapshotCosts[i] : i \in 1..Len(token_set_) })
max_cut ==
  CHOOSE v \in { SnapshotCosts[i] : i \in 1..Len(token_set_) } :
    /\ Cardinality({ i \in 1..Len(token_set_) : SnapshotCosts[i] < v }) <= config_.max_active
    /\ Cardinality({ i \in 1..Len(token_set_) : SnapshotCosts[i] <= v }) > config_.max_active

\* GetCutoff returns the max-active cutoff and not the beam cutoff
MaxActiveTighter ==
  /\ BetweenFrames
  /\ Len(token_set_) > config_.max_active
  /\ max_cut < best + config_.beam

\* C22 as stated: whenever GetCutoff returns the max-active cutoff, the
\* adaptive beam it puts out is strictly smaller than config_.beam.
AdaptiveBeamBelowBeam ==
  MaxActiveTighter => GetCutoff(Self, token_set_).adaptive_beam < config_.beam

\* C22: whenever GetCutoff returns the max-active cutoff, it returns max_cut
\* and the adaptive beam it puts out is max_cut - best + beam_delta, which is
\* strictly smaller than config_.beam + config_.beam_delta.
AdaptiveBeamBelowBeamPlusDelta ==
  MaxActiveTighter =>
    /\ GetCutoff(Self, token_set_).cutoff = max_cut
    /\ GetCutoff(Self, token_set_).adaptive_beam = max_cut - best + config_.beam_delta
    /\ GetCutoff(Self, token_set_).adaptive_beam < config_.beam + config_.beam_delta

\* the max-active cutoff is returned with an adaptive beam of at least
\* config_.beam
AdaptiveBeamBelowBeamPlusDeltaWitness ==
  /\ MaxActiveTighter
  /\ max_cut > best
  /\ GetCutoff(Self, token_set_).adaptive_beam >= config_.beam

\* the call that ran last met a word the LM-diff oracle has no arc for: the
\* !ans branch of PropagateLm is the only place the decoder ends the process
\* from, with exit(0)
LmArcMissed == lm_fst_ # NULL /\ failed = "exit"

\* C23: when the LM-diff oracle has no arc for a non-epsilon output label at
\* the current LM state, the call ends in a fatal error reported to the
\* caller (an abort or an exception), never in a normal return or a
\* successful termination.
NoLmArcIsFatal == LmArcMissed => ret.outcome \in {"assert", "error"}

\* what the LM-diff oracle answers for word olabel in LM state lm_state
LmWeight(lm_state, olabel) == LmGetArc(lm_fst_, lm_state, olabel).weight
LmNext(lm_state, olabel) == LmGetArc(lm_fst_, lm_state, olabel).nextstate

\* link comes from the graph arc with the LM-adjusted weight, and leads to
\* the token of the arc's destination and the LM arc's next state, at a
\* total_cost no higher than the one offered through it
FromWordArc(tok, link, arc) ==
  /\ arc.ilabel = link.ilabel /\ arc.olabel = link.olabel
  /\ link.graph_cost = arc.weight + LmWeight(ExtractLmState(state_of[tok]), arc.olabel)
  /\ state_of[link.dst_tok] =
       ComposeViterbiState(arc.dst, LmNext(ExtractLmState(state_of[tok]), arc.olabel))
  /\ tokens[link.dst_tok].total_cost <=
       tokens[tok].total_cost + link.graph_cost + link.acoustic_cost
LinksCarryLmWeight ==
  \A tok \in DOMAIN tokens : \A j \in 1..Len(tokens[tok].links) :
    (tokens[tok].links[j].olabel # 0 /\ tokens[tok].links[j].dst_tok \in DOMAIN tokens) =>
      \E k \in DOMAIN GraphArcs(la_fst_, ExtractLaState(state_of[tok])) :
        FromWordArc(tok, tokens[tok].links[j],
                    GraphArcs(la_fst_, ExtractLaState(state_of[tok]))[k])

\* the ways to read the arcs i.. of a path in the graph and the LM at once
\* (the first arc of GetBestPath's path is the arc TraceBackBestPath makes
\* for the start token, which stands for no graph arc),
\* from graph state la and LM state lm on: for each, the graph state and LM
\* state it ends in, the graph weights it sums (base) and the LM weights of
\* the words it crosses (lm_cost)
RECURSIVE Replay(_, _, _, _)
ReplayArc(arcs, i, la, lm, arc) ==
  IF arc.ilabel # arcs[i].ilabel \/ arc.olabel # arcs[i].olabel THEN {}
  ELSE IF arc.olabel = 0
  THEN { [r EXCEPT !.base = @ + arc.weight] : r \in Replay(arcs, i + 1, arc.dst, lm) }
  ELSE { [r EXCEPT !.base = @ + arc.weight, !.lm_cost = @ + LmWeight(lm, arc.olabel)] :
           r \in Replay(arcs, i + 1, arc.dst, LmNext(lm, arc.olabel)) }
Replay(arcs, i, la, lm) ==
  IF i > Len(arcs) THEN { [la |-> la, lm |-> lm, base |-> 0, lm_cost |-> 0] }
  ELSE UNION { ReplayArc(arcs, i, la, lm, GraphArcs(la_fst_, la)[k]) :
                 k \in DOMAIN GraphArcs(la_fst_, la) }

RECURSIVE AcousticCost(_)
AcousticCost(arcs) ==
  IF arcs = << >> THEN 0 ELSE Head(arcs).acoustic_cost + AcousticCost(Tail(arcs))

\* the cost of the reading r of the path arcs without the LM: graph weights,
\* acoustic costs and the graph's final cost
NoLmCost(arcs, r) == Plus(r.base + AcousticCost(arcs), GraphFinal(la_fst_, r.la))

\* GetBestPath(use_final_probs = true) returned a path to a final token of a
\* decoder with an LM-diff oracle
BestPathWithLm ==
  /\ lm_fst_ # NULL /\ failed = ""
  /\ ret.op = "GetBestPath" /\ ret.use_final_probs /\ ret.outcome = "ok" /\ ret.result
  /\ ~NoneFinal

\* C24 as stated: with an LM-diff oracle every link made from a graph arc
\* with a word label carries the LM-adjusted weight and leads to the LM arc's
\* next state, and the cost of the best path with its final cost exceeds
\* the cost without LM by exactly the LM weights of the words crossed.
LmCostIsWordWeights ==
  /\ (lm_fst_ # NULL /\ failed = "") => LinksCarryLmWeight
  /\ BestPathWithLm =>
       \E r \in Replay(ret.arcs, 2, GraphStart(la_fst_), LmStart(lm_fst_)) :
         ArcsCost(ret.arcs) + ret.final_cost = NoLmCost(ret.arcs, r) + r.lm_cost

\* C24: with an LM-diff oracle every link made from a graph arc with a
\* word label carries the LM-adjusted weight and leads to the LM arc's next
\* state, and the cost of the best path with its final cost exceeds the cost
\* without LM by the LM weights of the words crossed plus the LM's final
\* weight in the LM state the path ends in.
LmCostIsWordAndFinalWeights ==
  /\ (lm_fst_ # NULL /\ failed = "") => LinksCarryLmWeight
  /\ BestPathWithLm =>
       \E r \in Replay(ret.arcs, 2, GraphStart(la_fst_), LmStart(lm_fst_)) :
         ArcsCost(ret.arcs) + ret.final_cost =
           NoLmCost(ret.arcs, r) + r.lm_cost + LmFinal(lm_fst_, r.lm)

\* a best path that crosses two words, under an LM with final weights, in a
\* network that holds a link made from an epsilon arc with a word label
LmCostIsWordAndFinalWeightsWitness ==
  /\ BestPathWithLm /\ lm_fst_ = 3
  /\ \E i, j \in 1..Len(ret.arcs) : i # j /\ ret.arcs[i].olabel # 0 /\ ret.arcs[j].olabel # 0
  /\ \E tok \in DOMAIN tokens : \E j \in 1..Len(tokens[tok].links) :
       tokens[tok].links[j].ilabel = 0 /\ tokens[tok].links[j].olabel # 0

\* the decoder as the PruneTokenNet call of the next DecodeFrame leaves it
AfterPruneTokenNet ==
  PruneTokenNet(Self, config_.lattice_beam * config_.prune_num, config_.prune_den)
\* the next DecodeFrame calls PruneTokenNet
PruneDue == BetweenFrames /\ NumFramesDecoded(Self) % config_.prune_interval = 0

\* token tok of d is within the lattice beam through one of its links
WithinBeam(d, tok) ==
  /\ d.tokens[tok].extra_cost <= d.config_.lattice_beam
  /\ \E j \in 1..Len(d.tokens[tok].links) :
       d.tokens[d.tokens[tok].links[j].dst_tok].extra_cost <= d.config_.lattice_beam
\* token tok of d has lost every link and awaits PruneTokenList
Unreachable(d, tok) == d.tokens[tok].extra_cost = Inf /\ d.tokens[tok].links = << >>

\* C25 as stated: after PruneTokenNet returns, every token on a frame other
\* than the last, frame 0 included, has extra_cost <= lattice_beam and a link
\* to a token with extra_cost <= lattice_beam.
PrunedNetWithinBeam ==
  PruneDue =>
    \A f \in 1..(Len(token_net_) - 1) : \A tok \in ToksOf(AfterPruneTokenNet, f) :
      WithinBeam(AfterPruneTokenNet, tok)

\* C25: after PruneTokenNet returns, every token on a frame other than
\* frame 0 and the last has extra_cost <= lattice_beam and a link to a token
\* with extra_cost <= lattice_beam; a token of frame 0 is either like that
\* or is left with extra_cost = +infinity and no link, since PruneTokenNet
\* never calls PruneTokenList(0).
PrunedNetWithinBeamButFrame0 ==
  PruneDue =>
    /\ AfterPruneTokenNet.failed = ""
    /\ \A f \in 2..(Len(token_net_) - 1) : \A tok \in ToksOf(AfterPruneTokenNet, f) :
         WithinBeam(AfterPruneTokenNet, tok)
    /\ Len(token_net_) > 1 =>
         \A tok \in ToksOf(AfterPruneTokenNet, 1) :
           WithinBeam(AfterPruneTokenNet, tok) \/ Unreachable(AfterPruneTokenNet, tok)

\* PruneTokenNet deleted a token of a frame between, and left an unreachable
\* token on frame 0
PrunedNetWithinBeamButFrame0Witness ==
  /\ PruneDue /\ Len(token_net_) > 2
  /\ \E f \in 2..(Len(token_net_) - 1) :
       ToksOf(AfterPruneTokenNet, f) # ToksOf(Self, f)
  /\ \E tok \in ToksOf(AfterPruneTokenNet, 1) : Unreachable(AfterPruneTokenNet, tok)

\* the decoder as PruneTokenNet(delta = dnum / dden) has it when its loop,
\* coming down from frame t, gets to frame stop
RECURSIVE BeforeFrame(_, _, _, _, _)
BeforeFrame(d, t, stop, dnum, dden) ==
  IF t <= stop \/ d.failed # "" THEN d
  ELSE BeforeFrame(
         PruneTokenNetTokens(
           IF d.token_net_[t + 1].must_prune_forward_links
           THEN PruneTokenNetFlags(PruneForwardLinks(d, t, dnum, dden), t)
           ELSE d,
           t, NumFramesDecoded(d)),
         t - 1, stop, dnum, dden)
ConfigDelta == << config_.lattice_beam * config_.prune_num, config_.prune_den >>
AtFrame(t) ==
  BeforeFrame(Self, NumFramesDecoded(Self) - 1, t, ConfigDelta[1], ConfigDelta[2])

\* the values of delta tried, as fractions << dnum, dden >>
Deltas == { << 0, 1 >>, << 1, 2 >>, << 1, 1 >>, << 2, 1 >> }

\* link_extra_cost of link j of token tok of d, from the costs d holds
ExtraOf(d, tok, j) ==
  Plus(d.tokens[d.tokens[tok].links[j].dst_tok].extra_cost,
       (d.tokens[tok].total_cost + d.tokens[tok].links[j].acoustic_cost
          + d.tokens[tok].links[j].graph_cost)
         - d.tokens[d.tokens[tok].links[j].dst_tok].total_cost)

\* frame t of d holds no link beyond the lattice beam, and every token's
\* extra_cost is the least link_extra_cost of its links
LinksWithinBeam(d, t) ==
  \A tok \in ToksOf(d, t + 1) :
    /\ \A j \in 1..Len(d.tokens[tok].links) : ExtraOf(d, tok, j) <= d.config_.lattice_beam
    /\ d.tokens[tok].extra_cost =
         SetMin({ ExtraOf(d, tok, j) : j \in 1..Len(d.tokens[tok].links) })

\* C26 as stated: right after PruneForwardLinks(t, delta) returns, for any
\* delta >= 0, no link of a token on frame t has link_extra_cost >
\* lattice_beam under the destinations' current extra_cost, and every token's
\* extra_cost is the least link_extra_cost of its links (+infinity for none).
ForwardLinksWithinBeam ==
  PruneDue =>
    \A t \in 0..(NumFramesDecoded(Self) - 1) : \A delta \in Deltas :
      LinksWithinBeam(PruneForwardLinks(AtFrame(t), t, delta[1], delta[2]).d, t)

\* frame t of d holds no link to the next frame beyond the lattice beam, and
\* every token has either no link and extra_cost = +infinity, or some link
\* and extra_cost <= lattice_beam
NextFrameLinksWithinBeam(d, t) ==
  \A tok \in ToksOf(d, t + 1) :
    /\ \A j \in 1..Len(d.tokens[tok].links) :
         d.tokens[tok].links[j].ilabel # 0 => ExtraOf(d, tok, j) <= d.config_.lattice_beam
    /\ IF d.tokens[tok].links = << >> THEN d.tokens[tok].extra_cost = Inf
       ELSE d.tokens[tok].extra_cost <= d.config_.lattice_beam

\* C26: right after PruneForwardLinks(t, 0) returns, no link of a token
\* on frame t has link_extra_cost > lattice_beam under the destinations'
\* current extra_cost, and every token's extra_cost is the least
\* link_extra_cost of its links (+infinity for none).  For delta > 0 that
\* holds of the links to the next frame, and every token with a link is left
\* with extra_cost <= lattice_beam; a link to a token of the same frame is
\* judged by the extra_cost its destination had when the link was visited.
ForwardLinksWithinBeamDelta0 ==
  PruneDue =>
    \A t \in 0..(NumFramesDecoded(Self) - 1) :
      /\ LinksWithinBeam(PruneForwardLinks(AtFrame(t), t, 0, 1).d, t)
      /\ \A delta \in Deltas :
           NextFrameLinksWithinBeam(PruneForwardLinks(AtFrame(t), t, delta[1], delta[2]).d, t)

\* PruneForwardLinks(t, 0) took a link away
LinkPruned(pre, post, t) ==
  \E tok \in ToksOf(pre, t + 1) : Len(post.tokens[tok].links) < Len(pre.tokens[tok].links)

\* PruneForwardLinks(t, 0) prunes a link on some frame, and on some frame
\* PruneForwardLinks(t, delta) with delta > 0 stops with a link or a token's
\* extra_cost out of date
ForwardLinksWithinBeamDelta0Witness ==
  /\ PruneDue
  /\ \E t \in 0..(NumFramesDecoded(Self) - 1) :
       LinkPruned(AtFrame(t), PruneForwardLinks(AtFrame(t), t, 0, 1).d, t)
  /\ \E t \in 0..(NumFramesDecoded(Self) - 1) : \E delta \in Deltas :
       ~LinksWithinBeam(PruneForwardLinks(AtFrame(t), t, delta[1], delta[2]).d, t)

\* every token on a token list
Listed == UNION { FrameToks(f) : f \in 1..Len(token_net_) }

SearchStates ==
  { ComposeViterbiState(la, lm) :
      la \in DOMAIN Graphs[la_fst_].arcs,
      lm \in IF lm_fst_ = NULL THEN {0} ELSE {LmStart(lm_fst_)} \cup Words }
TotalCosts == {0, 1, 2, 5}
Backpointers == {NULL} \cup FrameToks(Len(token_net_))
Found(state) == Find(token_set_, state) # 0

\* r is what FindOrAddToken(state, t, total_cost, backpointer) put out for a
\* state the active index does not hold: a new token with extra_cost 0 and no
\* links, at the head of the frame's list and in the active index
AddedToken(r, state, total_cost, backpointer) ==
  /\ r.changed
  /\ r.tok \notin DOMAIN tokens
  /\ DOMAIN r.d.tokens = DOMAIN tokens \cup {r.tok}
  /\ r.d.tokens[r.tok] = [total_cost |-> total_cost, extra_cost |-> 0,
                          links |-> << >>, backpointer |-> backpointer]
  /\ r.d.token_net_[Len(token_net_)].toks = << r.tok >> \o token_net_[Len(token_net_)].toks
  /\ Find(r.d.token_set_, state) # 0
  /\ r.d.token_set_[Find(r.d.token_set_, state)].val = r.tok
  /\ Len(r.d.token_set_) = Len(token_set_) + 1
  /\ r.d.num_toks_ = num_toks_ + 1

\* r is what FindOrAddToken put out for a state the active index holds:
\* nothing is allocated
NothingAdded(r) ==
  /\ DOMAIN r.d.tokens = DOMAIN tokens
  /\ r.d.token_net_ = token_net_ /\ r.d.token_set_ = token_set_
  /\ r.d.num_toks_ = num_toks_ /\ r.d.nalloc = nalloc

\* C28: while decoding is not finalized, no frame holds two tokens of one
\* search state, and the active index holds no state twice; FindOrAddToken
\* allocates a token (extra_cost 0, no links, at the head of the frame's
\* list, in the active index, num_toks_ one up, changed = true) only when
\* the active index does not hold the state.
OneTokenPerState ==
  (failed = "" /\ token_net_ # << >> /\ ~decoding_finalized_) =>
    /\ \A f \in 1..Len(token_net_) : \A t1, t2 \in FrameToks(f) :
         state_of[t1] = state_of[t2] => t1 = t2
    /\ \A i, j \in 1..Len(token_set_) : token_set_[i].key = token_set_[j].key => i = j
    /\ BetweenFrames =>
         \A state \in SearchStates, total_cost \in TotalCosts, bp \in Backpointers :
           IF Found(state)
           THEN NothingAdded(FindOrAddToken(Self, state, NumFramesDecoded(Self),
                                            total_cost, bp))
           ELSE AddedToken(FindOrAddToken(Self, state, NumFramesDecoded(Self),
                                          total_cost, bp),
                           state, total_cost, bp)

\* a frame whose expansion offered one search state more than once holds
\* one token for it: two tokens of the frame before own a link to it
OneTokenPerStateWitness ==
  /\ BetweenFrames /\ NumFramesDecoded(Self) >= 2
  /\ \E tok \in FrameToks(Len(token_net_)) :
       \E s1, s2 \in FrameToks(Len(token_net_) - 1) :
         /\ s1 # s2
         /\ \E j \in 1..Len(tokens[s1].links) : tokens[s1].links[j].dst_tok = tok
         /\ \E j \in 1..Len(tokens[s2].links) : tokens[s2].links[j].dst_tok = tok
  /\ \E state \in SearchStates : Found(state)
  /\ \E state \in SearchStates : ~Found(state)

\* the token the active index holds for state
TokenOf(state) == token_set_[Find(token_set_, state)].val

\* r is what FindOrAddToken(state, t, total_cost, backpointer) put out for a
\* state the active index holds
UpdatedToken(r, tok, total_cost, backpointer) ==
  /\ r.tok = tok
  /\ r.changed <=> total_cost < tokens[tok].total_cost
  /\ r.changed => /\ r.d.tokens[tok].total_cost = total_cost
                  /\ r.d.tokens[tok].backpointer = backpointer
  /\ ~r.changed => r.d = Self
  /\ NothingAdded(r)
  /\ r.d.tokens[tok].links = tokens[tok].links
  /\ r.d.tokens[tok].extra_cost = tokens[tok].extra_cost
  /\ r.d.tokens[tok].total_cost <= tokens[tok].total_cost
  /\ \A other \in DOMAIN tokens \ {tok} : r.d.tokens[other] = tokens[other]

FoundTokenUpdatedIfLower ==
  BetweenFrames =>
    \A i \in 1..Len(token_set_), bp \in Backpointers :
      \A total_cost \in { tokens[token_set_[i].val].total_cost + c : c \in {-1, 0, 1} } :
        UpdatedToken(FindOrAddToken(Self, token_set_[i].key, NumFramesDecoded(Self),
                                    total_cost, bp),
                     token_set_[i].val, total_cost, bp)

\* a step of one utterance: the token numbers of the state before still name
\* the same tokens after it
SameUtterance ==
  /\ failed = "" /\ failed' = ""
  /\ ret'.op \in {"AdvanceDecoding", "FinalizeDecoding"}

TotalCostNotRaised ==
  SameUtterance =>
    \A tok \in DOMAIN tokens \cap DOMAIN tokens' :
      tokens'[tok].total_cost <= tokens[tok].total_cost

\* C29: for a state the active index holds, FindOrAddToken sets total_cost
\* and backpointer and reports changed = true exactly when the incoming
\* total_cost is strictly lower than the token's; either way it allocates
\* nothing and leaves the token's links, extra_cost and place in the list
\* alone; no step of an utterance raises a token's total_cost.
FoundTokenKeepsLowerCost == [] FoundTokenUpdatedIfLower /\ [][TotalCostNotRaised]_vars

\* what the link j of token src offered its destination as total_cost
Arrival(src, j) ==
  tokens[src].total_cost + tokens[src].links[j].graph_cost
    + tokens[src].links[j].acoustic_cost

\* a token of the last frame was offered two different total costs by two
\* tokens of the frame before: it holds the lower one, and its backpointer
\* names the token that offered it
FoundTokenKeepsLowerCostWitness ==
  /\ BetweenFrames /\ NumFramesDecoded(Self) >= 1
  /\ \E tok \in FrameToks(Len(token_net_)) :
       \E s1, s2 \in FrameToks(Len(token_net_) - 1) :
         \E j1 \in 1..Len(tokens[s1].links), j2 \in 1..Len(tokens[s2].links) :
           /\ s1 # s2
           /\ tokens[s1].links[j1].dst_tok = tok
           /\ tokens[s2].links[j2].dst_tok = tok
           /\ Arrival(s1, j1) < Arrival(s2, j2)
           /\ tokens[tok].total_cost = Arrival(s1, j1)
           /\ tokens[tok].backpointer = s1

\* ProcessNonemitting was the last thing the public call ran, and it returned
AfterNonemitting ==
  /\ BetweenFrames
  /\ log # << >> /\ log[Len(log)].op = "ProcessNonemitting"
\* the cutoff it was handed
NonemittingCutoff == log[Len(log)].val

\* the epsilon arc a of the state of tok as ProcessNonemitting sees it, the
\* language model's weight added
SeenArc(tok, a) == NextLm(Self, ExtractLmState(state_of[tok]), a)
Taken(tok, a, cutoff) ==
  /\ a.ilabel = kWfstEpsilon
  /\ SeenArc(tok, a).ok
  /\ tokens[tok].total_cost + SeenArc(tok, a).arc.weight < cutoff
\* the link the arc a leaves on tok
LinkOf(tok, a) ==
  NewLink(TokenOf(ComposeViterbiState(SeenArc(tok, a).arc.dst, SeenArc(tok, a).next)),
          0, SeenArc(tok, a).arc.olabel, SeenArc(tok, a).arc.weight, 0)

\* the links of tok are one link for each of the arcs from j on that is taken
\* and nothing else: links is what is left of the list, the newest link first
RECURSIVE OneLinkPerArc(_, _, _, _, _)
OneLinkPerArc(tok, arcs, j, links, cutoff) ==
  IF j > Len(arcs) THEN links = << >>
  ELSE IF ~Taken(tok, arcs[j], cutoff) THEN OneLinkPerArc(tok, arcs, j + 1, links, cutoff)
  ELSE /\ links # << >>
       /\ Find(token_set_, ComposeViterbiState(SeenArc(tok, arcs[j]).arc.dst,
                                               SeenArc(tok, arcs[j]).next)) # 0
       /\ links[Len(links)] = LinkOf(tok, arcs[j])
       /\ OneLinkPerArc(tok, arcs, j + 1, SubSeq(links, 1, Len(links) - 1), cutoff)

\* C30: when ProcessNonemitting(cutoff) has returned, every token of the
\* current frame with total_cost <= cutoff owns one epsilon link for each
\* epsilon arc of its state with tok.total_cost + arc.weight < cutoff, at the
\* token's final total_cost, and no other link; a token with
\* total_cost > cutoff owns no link.
NonemittingLinksExact ==
  AfterNonemitting =>
    \A tok \in FrameToks(Len(token_net_)) :
      IF tokens[tok].total_cost <= NonemittingCutoff
      THEN OneLinkPerArc(tok, GraphArcs(la_fst_, ExtractLaState(state_of[tok])), 1,
                         tokens[tok].links, NonemittingCutoff)
      ELSE tokens[tok].links = << >>

\* a token some token of the frame offers more than it holds, over an
\* epsilon link: its total_cost was lowered after it was created
Lowered(tok) ==
  \E src \in FrameToks(Len(token_net_)) : \E j \in 1..Len(tokens[src].links) :
    /\ tokens[src].links[j].dst_tok = tok
    /\ tokens[src].links[j].ilabel = kWfstEpsilon
    /\ Arrival(src, j) > tokens[tok].total_cost

\* the current frame holds a token that was visited again at a lower
\* total_cost, owns a link and has an epsilon arc that was not taken
NonemittingLinksExactWitness ==
  /\ AfterNonemitting
  /\ \E tok \in FrameToks(Len(token_net_)) :
       /\ Lowered(tok) /\ tokens[tok].links # << >>
       /\ tokens[tok].total_cost <= NonemittingCutoff
       /\ \E j \in 1..Len(GraphArcs(la_fst_, ExtractLaState(state_of[tok]))) :
            /\ GraphArcs(la_fst_, ExtractLaState(state_of[tok]))[j].ilabel = kWfstEpsilon
            /\ ~Taken(tok, GraphArcs(la_fst_, ExtractLaState(state_of[tok]))[j],
                      NonemittingCutoff)

\* src.total_cost + acoustic_cost + graph_cost - dst.total_cost of the link j
\* of token src
Residual(src, j) == Arrival(src, j) - tokens[tokens[src].links[j].dst_tok].total_cost

\* the links of the token network that lead to a token of the network
LiveLinks ==
  { << src, j >> \in Listed \X (1..8) :
      /\ src \in DOMAIN tokens
      /\ j <= Len(tokens[src].links)
      /\ tokens[src].links[j].dst_tok \in DOMAIN tokens }

\* the links that lead from the backpointer of tok to tok
FromBackpointer(tok) ==
  { l \in LiveLinks : l[1] = tokens[tok].backpointer /\ tokens[l[1]].links[l[2]].dst_tok = tok }

\* C31: after every public operation, every link has
\* src.total_cost + acoustic_cost + graph_cost - dst.total_cost >= 0, and
\* the link from a token's backpointer to the token has it = 0; so the
\* link_extra_cost, the destination's extra_cost plus that difference, is
\* not negative before it is clamped.
LinkResidual ==
  (failed = "" /\ token_net_ # << >>) =>
    /\ \A l \in LiveLinks :
         /\ Residual(l[1], l[2]) >= 0
         /\ Plus(tokens[tokens[l[1]].links[l[2]].dst_tok].extra_cost,
                 Residual(l[1], l[2])) >= 0
    /\ \A tok \in Listed : tok \in DOMAIN tokens =>
         (FromBackpointer(tok) # {} =>
            \E l \in FromBackpointer(tok) : Residual(l[1], l[2]) = 0)

\* after pruning, the network holds a link that is not the best way into its
\* destination, next to the link from the destination's backpointer
LinkResidualWitness ==
  /\ failed = "" /\ NumFramesDecoded(Self) >= 2 /\ SomePruned
  /\ \E l \in LiveLinks :
       /\ Residual(l[1], l[2]) > 0
       /\ FromBackpointer(tokens[l[1]].links[l[2]].dst_tok) # {}
       /\ l \notin FromBackpointer(tokens[l[1]].links[l[2]].dst_tok)

\* the epsilon links between the tokens of the list toks: << u, v >> for
\* a link of u with ilabel 0 that leads to v
EpsLinks(d, toks) ==
  { e \in { toks[k] : k \in 1..Len(toks) } \X { toks[k] : k \in 1..Len(toks) } :
      \E j \in 1..Len(d.tokens[e[1]].links) :
        /\ d.tokens[e[1]].links[j].ilabel = 0
        /\ d.tokens[e[1]].links[j].dst_tok = e[2] }
\* E and the pairs two links of E in a row make
Compose(E) == E \cup { << p[1][1], p[2][2] >> : p \in { q \in E \X E : q[1][2] = q[2][1] } }
RECURSIVE Closure(_, _)
Closure(E, n) == IF n = 0 THEN E ELSE Closure(Compose(E), n - 1)
HasCycle(d, toks) == \E e \in Closure(EpsLinks(d, toks), Len(toks)) : e[1] = e[2]

\* the positions of tok in the vector list
IndexOf(list, tok) == { k \in 1..Len(list) : list[k] = tok }

\* r is what TopSortTokens put out for the list toks: every token at one
\* place, NULL elsewhere, each epsilon link from a lower to a higher place
TopSorted(d, toks, r) ==
  /\ r.ok
  /\ \A k \in 1..Len(toks) : Cardinality(IndexOf(r.list, toks[k])) = 1
  /\ \A k \in 1..Len(r.list) : r.list[k] = NULL \/ \E i \in 1..Len(toks) : toks[i] = r.list[k]
  /\ \A e \in EpsLinks(d, toks) :
       \A a \in IndexOf(r.list, e[1]), b \in IndexOf(r.list, e[2]) : a < b

\* C32: for a frame whose epsilon links form no cycle TopSortTokens puts
\* out a vector that holds every token of the frame once and NULL
\* elsewhere, with u before v for every epsilon link u -> v of the frame; for
\* a frame whose epsilon links hold a cycle it puts out no list and ends in
\* the fatal error.
TopSortOrdersOrFails ==
  (failed = "" /\ token_net_ # << >>) =>
    \A f \in 1..Len(token_net_) :
      IF HasCycle(Self, token_net_[f].toks)
      THEN ~TopSortTokens(Self, token_net_[f].toks).ok
      ELSE TopSorted(Self, token_net_[f].toks, TopSortTokens(Self, token_net_[f].toks))

\* the same for the frames without a cycle alone
TopSortOrdersAcyclic ==
  (failed = "" /\ token_net_ # << >>) =>
    \A f \in 1..Len(token_net_) :
      ~HasCycle(Self, token_net_[f].toks) =>
        TopSorted(Self, token_net_[f].toks, TopSortTokens(Self, token_net_[f].toks))

\* the graph g has an epsilon cycle: some state reaches itself over arcs
\* with ilabel 0
EpsArcs(g) ==
  { e \in (DOMAIN Graphs[g].arcs) \X (DOMAIN Graphs[g].arcs) :
      \E j \in 1..Len(GraphArcs(g, e[1])) :
        GraphArcs(g, e[1])[j].ilabel = kWfstEpsilon /\ GraphArcs(g, e[1])[j].dst = e[2] }
EpsCycle(g) ==
  \E e \in Closure(EpsArcs(g), Cardinality(DOMAIN Graphs[g].arcs)) : e[1] = e[2]

\* the token InitDecoding created: the one that entered frame 0's list first
StartToken == token_net_[1].toks[Len(token_net_[1].toks)]

\* GetRawLattice has returned a lattice
LatticeRead ==
  /\ failed = "" /\ ret.op = "GetRawLattice" /\ ret.outcome = "ok" /\ ret.result

\* C33: in every lattice GetRawLattice returns for a graph without epsilon
\* cycles, state 0, the start state, is the state of the decoder's start
\* token, the token InitDecoding created with backpointer NULL.
LatticeStartIsStartToken ==
  (LatticeRead /\ ~EpsCycle(la_fst_)) =>
    /\ ret.lattice.states[1] = StartToken
    /\ ret.lattice.start = StartToken
    /\ tokens[StartToken].backpointer = NULL
    /\ tokens[StartToken].total_cost = 0
    /\ state_of[StartToken] =
         ComposeViterbiState(GraphStart(la_fst_),
                             IF lm_fst_ = NULL THEN 0 ELSE LmStart(lm_fst_))

\* a lattice was read after link pruning, with a frame 0 of several tokens
\* of which one is no longer the destination of any link
LatticeStartIsStartTokenWitness ==
  /\ LatticeRead /\ ~EpsCycle(la_fst_)
  /\ Len(token_net_[1].toks) >= 3
  /\ \E tok \in FrameToks(1) \ {StartToken} :
       /\ tokens[tok].extra_cost > 0
       /\ \A src \in FrameToks(1) : \A j \in 1..Len(tokens[src].links) :
            tokens[src].links[j].dst_tok # tok

\* the tokens a link of a token of S leads to whose extra_cost is below beam
GoodSuccessors(S, beam) ==
  { tokens[l[1]].links[l[2]].dst_tok :
      l \in { x \in S \X (1..8) : /\ x[2] <= Len(tokens[x[1]].links)
                                  /\ tokens[tokens[x[1]].links[x[2]].dst_tok].extra_cost < beam } }
\* the tokens reached from S over such links
RECURSIVE GoodReach(_, _)
GoodReach(S, beam) ==
  IF GoodSuccessors(S, beam) \subseteq S THEN S
  ELSE GoodReach(S \cup GoodSuccessors(S, beam), beam)

\* GetRawLatticePruned(lattice_beam) has returned a lattice
PrunedLatticeRead ==
  /\ failed = "" /\ ret.op = "GetRawLatticePruned" /\ ret.outcome = "ok" /\ ret.result

\* the states of lat are the tokens of R, each once, and its arcs are one
\* for each link of a token of R to a token with extra_cost < beam
StatesAndArcs(lat, R, beam) ==
  /\ { lat.states[k] : k \in 1..Len(lat.states) } = R
  /\ Len(lat.states) = Cardinality(R)
  /\ lat.start = StartToken
  /\ \A arc \in lat.arcs :
       /\ arc.src \in R /\ arc.idx \in 1..Len(tokens[arc.src].links)
       /\ arc.dst = tokens[arc.src].links[arc.idx].dst_tok
       /\ arc.ilabel = tokens[arc.src].links[arc.idx].ilabel
       /\ arc.olabel = tokens[arc.src].links[arc.idx].olabel
       /\ tokens[arc.dst].extra_cost < beam
  /\ \A src \in R : \A j \in 1..Len(tokens[src].links) :
       tokens[tokens[src].links[j].dst_tok].extra_cost < beam =>
         Cardinality({ arc \in lat.arcs : arc.src = src /\ arc.idx = j }) = 1

\* the tokens of R on the last frame
ReachedLast(R) == R \cap FrameToks(Len(token_net_))

\* C34 as stated: the lattice GetRawLatticePruned(beam) puts out holds exactly
\* the tokens reached from the start token over links to tokens with
\* extra_cost < beam, one arc for each such link and no arc into a token
\* with extra_cost >= beam; the tokens reached on the last frame, and only
\* they, have a final weight.
PrunedLatticeFinalsAll ==
  PrunedLatticeRead =>
    /\ StatesAndArcs(ret.lattice, GoodReach({StartToken}, config_.lattice_beam),
                     config_.lattice_beam)
    /\ DOMAIN ret.lattice.finals =
         ReachedLast(GoodReach({StartToken}, config_.lattice_beam))

\* C34: the lattice GetRawLatticePruned(beam) puts out holds exactly the
\* tokens reached from the start token over links to tokens with
\* extra_cost < beam, one arc for each such link and no arc into a token
\* with extra_cost >= beam; only tokens reached on the last frame have a
\* final weight: all of them when use_final_probs is false or no token has
\* a final cost, those with a final cost otherwise.
PrunedLatticeExact ==
  PrunedLatticeRead =>
    /\ StatesAndArcs(ret.lattice, GoodReach({StartToken}, config_.lattice_beam),
                     config_.lattice_beam)
    /\ DOMAIN ret.lattice.finals =
         IF ret.use_final_probs /\ DOMAIN ret.final_costs # {}
         THEN ReachedLast(GoodReach({StartToken}, config_.lattice_beam))
                \cap DOMAIN ret.final_costs
         ELSE ReachedLast(GoodReach({StartToken}, config_.lattice_beam))

\* a pruned lattice that leaves a listed token out, has a link without an
\* arc, and holds a token of the last frame without a final weight
PrunedLatticeExactWitness ==
  /\ PrunedLatticeRead /\ ret.use_final_probs
  /\ \E tok \in Listed : \A k \in 1..Len(ret.lattice.states) : ret.lattice.states[k] # tok
  /\ \E k \in 1..Len(ret.lattice.states) :
       \E j \in 1..Len(tokens[ret.lattice.states[k]].links) :
         tokens[tokens[ret.lattice.states[k]].links[j].dst_tok].extra_cost
           >= config_.lattice_beam
  /\ \E k \in 1..Len(ret.lattice.states) :
       /\ ret.lattice.states[k] \in FrameToks(Len(token_net_))
       /\ ret.lattice.states[k] \notin DOMAIN ret.lattice.finals

\* PruneTokenNet(lattice_beam * prune_scale) on the decoder as it stands
PruneNow ==
  PruneTokenNet(Self, config_.lattice_beam * config_.prune_num, config_.prune_den)

\* p, the decoder after a PruneTokenNet, holds the last frame as it was
LastFrameKept(p) ==
  /\ p.failed = ""
  /\ p.token_net_[Len(token_net_)].toks = token_net_[Len(token_net_)].toks
  /\ \A tok \in FrameToks(Len(token_net_)) :
       tok \in DOMAIN p.tokens /\ p.tokens[tok] = tokens[tok]

\* C35: while decoding is not finalized, after InitDecoding and after every
\* AdvanceDecoding every token of the last frame has extra_cost = 0, and
\* PruneTokenNet deletes no token of the last frame.
LastFrameExtraCostZero ==
  BetweenFrames =>
    /\ \A tok \in FrameToks(Len(token_net_)) :
         tok \in DOMAIN tokens /\ tokens[tok].extra_cost = 0
    /\ LastFrameKept(PruneNow)

\* p, the decoder after a PruneTokenNet, has lost a token
TokenDeleted(p) == p.failed = "" /\ DOMAIN p.tokens # DOMAIN tokens

\* between two frames, with several tokens on the last frame, a PruneTokenNet
\* would delete a token of an earlier frame
LastFrameExtraCostZeroWitness ==
  /\ BetweenFrames /\ ret.op = "AdvanceDecoding" /\ NumFramesDecoded(Self) >= 2
  /\ Cardinality(FrameToks(Len(token_net_))) >= 2
  /\ TokenDeleted(PruneNow)

\* the tokens the active index holds
Indexed == { token_set_[i].val : i \in 1..Len(token_set_) }

\* C36: while decoding is not finalized, after InitDecoding and after every
\* AdvanceDecoding the active index holds the tokens of the last frame's
\* list and no other, each under its search state, so it holds no deleted
\* token; after FinalizeDecoding the active index is empty.
ActiveIndexIsLastFrame ==
  /\ BetweenFrames =>
       /\ Indexed = FrameToks(Len(token_net_))
       /\ Indexed \subseteq DOMAIN tokens
       /\ Len(token_set_) = Len(token_net_[Len(token_net_)].toks)
       /\ \A i \in 1..Len(token_set_) : token_set_[i].key = state_of[token_set_[i].val]
  /\ (failed = "" /\ decoding_finalized_) => token_set_ = << >>

\* between two frames, after tokens were deleted, with an earlier frame that
\* holds a token the last frame does not
ActiveIndexIsLastFrameWitness ==
  /\ BetweenFrames /\ ret.op = "AdvanceDecoding" /\ SomePruned
  /\ NumFramesDecoded(Self) >= 2
  /\ Cardinality(Indexed) >= 2
  /\ Listed \ Indexed # {}

\* decoding was finalized with tokens left on the last frame
ActiveIndexEmptied ==
  /\ failed = "" /\ decoding_finalized_ /\ ret.op = "FinalizeDecoding"
  /\ token_net_ # << >> /\ FrameToks(Len(token_net_)) # {}

\* AdvanceDecoding called once for each number of frames ready in cuts, from
\* ready upward, and at last with all num_frames frames ready
RECURSIVE AdvanceInChunks(_, _, _, _)
AdvanceInChunks(d, cuts, ready, num_frames) ==
  IF ready >= num_frames THEN AdvanceDecoding(d, ll, num_frames, 0 - 1)
  ELSE IF ready \in cuts
  THEN AdvanceInChunks(AdvanceDecoding(d, ll, ready, 0 - 1), cuts, ready + 1, num_frames)
  ELSE AdvanceInChunks(d, cuts, ready + 1, num_frames)

\* AdvanceDecoding called with all frames ready and max_num_frames = chunk
\* until all are decoded
RECURSIVE AdvanceByMax(_, _, _)
AdvanceByMax(d, chunk, num_frames) ==
  IF d.failed # "" \/ NumFramesDecoded(d) >= num_frames THEN d
  ELSE AdvanceByMax(AdvanceDecoding(d, ll, num_frames, chunk), chunk, num_frames)

\* InitDecoding, the AdvanceDecoding calls, FinalizeDecoding, over the
\* frames the last Decode() consumed
Streamed(cuts) ==
  FinalizeDecoding(AdvanceInChunks(InitDecoding(Begin), cuts, 0, ret.num_frames_ready))
StreamedByMax(chunk) ==
  FinalizeDecoding(AdvanceByMax(InitDecoding(Begin), chunk, ret.num_frames_ready))

\* the frames at which PruneTokenNet was called, in order
PruneCalls(lg) ==
  [i \in 1..Len(SelectSeq(lg, LAMBDA e : e.op = "PruneTokenNet")) |->
     SelectSeq(lg, LAMBDA e : e.op = "PruneTokenNet")[i].frame]

\* the decoder d stands as this one does: token network, cost offsets, final
\* costs, and the frames PruneTokenNet was called at
SameDecoding(d) ==
  /\ d.failed = ""
  /\ TokenNetwork(d) = TokenNetwork(Self)
  /\ d.cost_offsets_ = cost_offsets_
  /\ d.final_costs_ = final_costs_
  /\ d.final_relative_cost_ = final_relative_cost_
  /\ d.final_best_cost_ = final_best_cost_
  /\ PruneCalls(d.log) = PruneCalls(log)

\* C37: InitDecoding, AdvanceDecoding calls that take the frames in chunks
\* of any sizes, and FinalizeDecoding leave the token network, cost offsets
\* and final costs that Decode() leaves, a single AdvanceDecoding over all
\* frames included, and call PruneTokenNet at the same frames.
StreamingInvariance ==
  (failed = "" /\ ret.op = "Decode") =>
    /\ \A cuts \in SUBSET (0..(ret.num_frames_ready - 1)) : SameDecoding(Streamed(cuts))
    /\ \A chunk \in 1..2 : SameDecoding(StreamedByMax(chunk))

\* Decode() consumed MaxFrames frames with a prune interval of 2 and deleted
\* tokens, and PruneTokenNet ran once in the middle of a chunk of the
\* streamed run
StreamingInvarianceWitness ==
  /\ failed = "" /\ ret.op = "Decode" /\ ret.result
  /\ ret.num_frames_ready = MaxFrames /\ config_.prune_interval = 2
  /\ SomePruned
  /\ \E i \in 1..Len(PruneCalls(log)) : PruneCalls(log)[i] = 2

\* GetBestPath(use_final_probs = true) on the decoder as it stands and on
\* the decoder FinalizeDecoding leaves
PathBefore == GetBestPath(Self, TRUE)
PathAfter == GetBestPath(FinalizeDecoding(Self), TRUE)

\* before and after name one path: both readers return, with the same
\* arcs and the same final weight
SamePath(before, after) ==
  /\ before.outcome = "ok" /\ after.outcome = "ok"
  /\ before.result = after.result
  /\ before.arcs = after.arcs
  /\ before.final_cost = after.final_cost

\* d, the decoder after FinalizeDecoding, has a token on every frame, the
\* start token on frame 0
FramesKept(d) ==
  /\ d.failed = "" /\ Len(d.token_net_) = Len(token_net_)
  /\ \A f \in 1..Len(d.token_net_) : d.token_net_[f].toks # << >>
  /\ \E k \in 1..Len(d.token_net_[1].toks) : d.token_net_[1].toks[k] = StartToken
  /\ StartToken \in DOMAIN d.tokens

\* C38: when at least one frame was decoded and the last frame holds a
\* token, GetBestPath(use_final_probs = true) returns the same arcs and the
\* same final weight right before and right after FinalizeDecoding, and
\* every frame keeps a token, frame 0 the start token.
FinalizeKeepsBestPath ==
  (BetweenFrames /\ NumFramesDecoded(Self) >= 1 /\ FrameToks(Len(token_net_)) # {}) =>
    /\ SamePath(PathBefore, PathAfter)
    /\ FramesKept(FinalizeDecoding(Self))

\* the tokens of frame t whose links lead from one to the other and back
LinkCycle(t) ==
  { p \in FrameToks(t + 1) \X FrameToks(t + 1) :
      /\ p[1] # p[2]
      /\ \E i \in 1..Len(tokens[p[1]].links) : tokens[p[1]].links[i].dst_tok = p[2]
      /\ \E i \in 1..Len(tokens[p[2]].links) : tokens[p[2]].links[i].dst_tok = p[1] }

RequeuedOnCycle ==
  /\ pc.at = "ProcessNonemitting" /\ queue_ # << >>
  /\ \E p \in LinkCycle(Len(token_net_) - 1) :
       state_of[p[1]] = queue_[Len(queue_)]

\* taken round by round with the delta Decode() passes, Decode() leaves the
\* decoder that the call as a whole leaves
StepsMakeDecode ==
  (pc.at = "idle" /\ pc.dnum # 0) =>
    /\ TokenNetwork(Self) = TokenNetwork(DecodeWith(config_.prune_interval))
    /\ ret.result = (token_net_[Len(token_net_)].toks # << >>)
====
